---------------------------- MODULE Spec2Model ----------------------------
(***************************************************************************)
(* goboot container: registration, dependency discovery through the        *)
(* access-tracking context, validation, depth-first initialization, and    *)
(* the lifecycle manager's concurrent StartAll and batched StopAll.         *)
(*                                                                         *)
(* A component is a name, a concrete type and the body of its Init: the    *)
(* lookups it makes on the context it is handed.  Go map iteration order   *)
(* is arbitrary, so every `for ... range map` is a nondeterministic choice.*)
(***************************************************************************)
EXTENDS Integers, Sequences, FiniteSets, TLC

VARIABLES
    pc,             \* position of container.New
    registry,       \* defaultComponentRegistry.components (its key set)
    prog,           \* the lookups each registered component's Init makes
    lifecycle,      \* names whose component implements LifecycleComponent
    discovered,     \* keys of defaultDependencyResolver.dependencies
    dependencies,   \* defaultDependencyResolver.dependencies
    trackedInits,   \* per name: calls of Init with the tracking context
    realInits,      \* per name: calls of Init with the real container
    selfLookups,    \* names whose tracked Init was handed the [name, name] error
    missingLookups, \* names whose tracked Init looked up an unregistered name
    err,            \* the error New returns (NoError while none)
    initialized,    \* defaultComponentInitializer.initialized
    initOrder,      \* defaultComponentInitializer.initOrder
    stack,          \* active initComponent frames (visited = names on it)
    lmOrder,        \* defaultLifecycleManager.initOrder
    startIdx,       \* StartAll: position of the launch loop
    startState,     \* per name: its start goroutine
    startCalls,     \* per name: calls of Start
    errChan,        \* StartAll: buffered error channel
    errChanClosed,  \* StartAll: errChan closed by the waiter goroutine
    startupErr,     \* StartAll: per name, its entries in the joined error
    stopPc,         \* StopAll: "idle", or "loop" while a call is in progress
    stopBatch,      \* StopAll: batch index
    stopIdx,        \* StopAll: loop variable i (0-based, as in the code)
    stopState,      \* per name: its stop goroutine in the current StopAll
    stopCalls,      \* per name: calls of Stop
    stopLog,        \* names in the order Stop was invoked by the current StopAll
    stopPanics,     \* names whose Stop panicked in the current StopAll
    shutdownCalls,  \* calls made of the shutdown function New returned
    background,     \* names whose component implements BackgroundComponent
    scheduled,      \* names whose component implements ScheduledComponent
    runOnStartup,   \* scheduled names whose Schedule has RunOnStartup
    hasDelay,       \* scheduled names whose Schedule has InitialDelay > 0
    ctxDone,        \* the caller has cancelled the context it gave New
    runState,       \* per name: the goroutine of startBackgroundComponent
    schedPc,        \* per name: the goroutine of startScheduledComponent
    execCalls,      \* per name: calls of Execute
    factories,      \* container.factories
    loaders,        \* container.variablesLoaders
    starters,       \* container.starters
    phaseIdx,       \* position of New's loop over the current list
    phaseLog,       \* the Create, Load, ShouldStart and Start calls made
    components,     \* defaultComponentRegistry.components: name -> instance
    muWriter,       \* defaultComponentRegistry.mu: the goroutine holding Lock
    muReaders,      \* defaultComponentRegistry.mu: the goroutines holding RLock
    thr,            \* per goroutine: its call on the registry in progress
    regLog,         \* the registry calls in the order they took effect
    regCalls,       \* registry calls made by the goroutines
    variables,      \* defaultVariableRegistry.variables
    varLog,         \* the variable registrations made, in order
    varRead,        \* the last read of a variable and what it returned
    tickBuffered,   \* names whose ticker channel holds a tick not yet taken
    metricsEnabled, \* Config.EnableMetrics
    metrics,        \* defaultMetricsCollector.metrics
    lookupLog,      \* the lookups the Init bodies made and what they were handed
    callerHolds,    \* what a caller holds of an accessor's result
    delayCancelled, \* scheduler goroutines that were in the initial delay
                    \* when the context was cancelled
    app             \* boot.Application: its shutdown and cancel fields and
                    \* where each caller of Shutdown is

vars == << pc, registry, prog, lifecycle, discovered, dependencies,
           trackedInits, realInits, selfLookups, missingLookups, err,
           initialized, initOrder, stack, lmOrder, startIdx, startState,
           startCalls, errChan, errChanClosed, startupErr, stopPc, stopBatch,
           stopIdx, stopState, stopCalls, stopLog, stopPanics, shutdownCalls,
           background, scheduled, runOnStartup, hasDelay, ctxDone, runState,
           schedPc, execCalls, factories, loaders, starters, phaseIdx,
           phaseLog, components, muWriter, muReaders, thr, regLog, regCalls,
           variables, varLog, varRead, tickBuffered, metricsEnabled, metrics,
           lookupLog, callerHolds, delayCancelled, app >>

bootVars == << registry, prog, lifecycle, discovered, dependencies,
               trackedInits, realInits, selfLookups, missingLookups >>
initVars == << initialized, initOrder, stack >>
startVars == << lmOrder, startIdx, startState, startCalls, errChan,
                errChanClosed, startupErr >>
stopVars == << stopPc, stopBatch, stopIdx, stopState, stopCalls, stopLog,
               stopPanics >>
taskVars == << background, scheduled, runOnStartup, hasDelay, ctxDone,
               runState, schedPc, execCalls, tickBuffered >>
phaseVars == << factories, loaders, starters, phaseIdx, phaseLog >>
regVars == << muWriter, muReaders, thr, regLog, regCalls >>
varVars == << variables, varLog, varRead >>
auxVars == << metricsEnabled, metrics, lookupLog, callerHolds,
             delayCancelled, app >>

-----------------------------------------------------------------------------
(* Bounds and the universe of components                                    *)

\* Component names the application may register.
Names == {"a", "b", "c"}

\* Most lookups one Init makes.
MaxLookups == 2

\* Most by-type lookups one Init makes (specification SpecTyped).
MaxTypedLookups == 1

\* Most calls of the shutdown function.
MaxShutdownCalls == 2

\* Components of the lifecycle-only specification.
NumLife == 6

NamePool == << "a", "b", "c", "d", "e", "f", "g", "h" >>

LifeNames == { NamePool[i] : i \in 1..NumLife }

AllNames == { NamePool[i] : i \in 1..Len(NamePool) }

\* Concrete type of each component: a and b share one type with Start/Stop,
\* c is a plain component.
CompType == [ n \in AllNames |-> IF n = "c" THEN "Plain" ELSE "Service" ]

\* Types an Init may ask for: the two concrete types, an interface every
\* component's type is assignable to, and a type nothing matches.
ReqTypes == {"Service", "Plain", "Component", "Absent"}

NoError == [code |-> "none", path |-> << >>, at |-> "none"]

\* components[name] of a name the map has no entry for.
Absent == 0

\* Goroutines that call the component registry at the same time.
Threads == {1, 2}

\* Names the goroutines register and look up.
RegNames == {"a", "b"}

IdleThread ==
    [pc |-> "idle", op |-> "none", name |-> "none", inst |-> 0,
     seen |-> [ n \in RegNames |-> Absent ]]

\* Names of variables.
VarNames == {"x", "y"}

\* The nil interface value.
Nil == [kind |-> "nil", n |-> 0, s |-> ""]

NoRead ==
    [op |-> "none", name |-> "none", value |-> Nil, str |-> "", at |-> 0]

\* A name the collector holds no *ComponentMetrics for.  A record holds the
\* dependency count and whether each duration has been written.
NoRecord ==
    [exists |-> FALSE, DependencyCount |-> 0, InitDuration |-> FALSE,
     StartDuration |-> FALSE, StopDuration |-> FALSE]

\* The caller holds no result of an accessor.
\* The goroutines that call Application.Shutdown: the one blocked in Run and
\* one of the application's own.
AppCallers == {"run", "user"}

\* The Application boot.New returns: shutdown and cancel are set and nobody
\* is in Shutdown.
NoApp == [shutdown |-> TRUE, cancel |-> TRUE,
          at |-> [ t \in AppCallers |-> "idle" ],
          calls |-> [ t \in AppCallers |-> 0 ]]

NoHeld == [src |-> "none", name |-> "none", alias |-> FALSE, muts |-> 0,
           val |-> << >>]

SeqToSet(s) == { s[i] : i \in 1..Len(s) }

-----------------------------------------------------------------------------
(* The body of Init: the lookups it makes on its context                    *)

NameOps == { [kind |-> "name", arg |-> n] : n \in Names }

TypeOps == { [kind |-> "type", arg |-> t] : t \in ReqTypes }

\* Init bodies that only look components up by name.
NamePrograms == { p \in SUBSET NameOps : Cardinality(p) <= MaxLookups }

\* Init bodies that only look components up by type.
TypedPrograms == { p \in SUBSET TypeOps : Cardinality(p) <= MaxTypedLookups }

NamesOf(p) == { o.arg : o \in { q \in p : q.kind = "name" } }

TypesOf(p) == { o.arg : o \in { q \in p : q.kind = "type" } }

NoMatch == "<none>"

\* The names an Init body passes to HasComponent.
HasOf(p) == { o.arg : o \in { q \in p : q.kind = "has" } }

\* What each HasComponent call of an Init body was told, on the tracking
\* context and on the real container alike: whether the registry holds the
\* name.
HasLog(ctx, c, p, reg) ==
    { [ctx |-> ctx, by |-> c, kind |-> "has", arg |-> n, comp |-> NoMatch,
       code |-> IF n \in reg THEN "true" ELSE "false"] : n \in HasOf(p) }

\* reflect: compType == elemType || compType == reflect.PtrTo(elemType)
ExactMatches(t, reg) == { n \in reg : CompType[n] = t }

\* reflect: compType.AssignableTo(elemType); every component type implements
\* the interface "Component", a concrete type is assignable only to itself.
AssignableMatches(t, reg) ==
    { n \in reg : t = "Component" \/ CompType[n] = t }

\* Variant of the lookup without its second loop over assignable types.
TypeMatchesExactOnly(t, reg) == ExactMatches(t, reg)

\* The components a by-type lookup may return: the first exact match in map
\* order, else the first assignable one, else none.
TypeMatches(t, reg) ==
    IF ExactMatches(t, reg) # {} THEN ExactMatches(t, reg)
    ELSE AssignableMatches(t, reg)

\* What each lookup of Init(tracker) was handed: by name, the error
\* CircularDependency for the component's own name, the component for a
\* registered name, and neither a component nor an error for any other; by
\* type, the component f picks, with CircularDependency when that is the
\* component itself and ComponentTypeNotFound when nothing matches.
TrackedLog(c, names, types, f, reg) ==
    { [ctx |-> "tracking", by |-> c, kind |-> "name", arg |-> n,
       comp |-> IF n # c /\ n \in reg THEN n ELSE NoMatch,
       code |-> IF n = c THEN "CIRCULAR_DEPENDENCY"
                ELSE IF n \in reg THEN "OK" ELSE "none"]
      : n \in names }
    \cup
    { [ctx |-> "tracking", by |-> c, kind |-> "type", arg |-> t,
       comp |-> IF f[t] = c THEN NoMatch ELSE f[t],
       code |-> IF f[t] = NoMatch THEN "COMPONENT_TYPE_NOT_FOUND"
                ELSE IF f[t] = c THEN "CIRCULAR_DEPENDENCY" ELSE "OK"]
      : t \in types }

\* Variant of the tracking context that records a by-name lookup only when
\* the registry holds the name.
TrackedOutcomesDropsMissing(c, p, reg) ==
    LET names == NamesOf(p)
        types == TypesOf(p)
        picks == { f \in [types -> reg \cup {NoMatch}] :
                     \A t \in types :
                        IF TypeMatches(t, reg) = {} THEN f[t] = NoMatch
                        ELSE f[t] \in TypeMatches(t, reg) }
    IN { [ deps    |-> ((names \ {c}) \cap reg)
                       \cup ({ f[t] : t \in types } \ {NoMatch, c})
                       \cup (HasOf(p) \cap reg),
           self    |-> (c \in names) \/ (\E t \in types : f[t] = c),
           missing |-> (names \ {c}) \ reg # {},
           log     |-> TrackedLog(c, names, types, f, reg)
                       \cup HasLog("tracking", c, p, reg) ] : f \in picks }

\* Variant of the tracking context whose HasComponent records the name
\* whether or not the registry holds it.
TrackedOutcomesHasAlways(c, p, reg) ==
    LET names == NamesOf(p)
        types == TypesOf(p)
        picks == { f \in [types -> reg \cup {NoMatch}] :
                     \A t \in types :
                        IF TypeMatches(t, reg) = {} THEN f[t] = NoMatch
                        ELSE f[t] \in TypeMatches(t, reg) }
    IN { [ deps    |-> (names \ {c})
                       \cup ({ f[t] : t \in types } \ {NoMatch, c})
                       \cup HasOf(p),
           self    |-> (c \in names) \/ (\E t \in types : f[t] = c),
           missing |-> (names \ {c}) \ reg # {},
           log     |-> TrackedLog(c, names, types, f, reg)
                       \cup HasLog("tracking", c, p, reg) ] : f \in picks }

\* One run of Init(tracker) for component c with body p: what the tracking
\* context records.  A lookup that resolves to c itself returns
\* CircularDependencyError([c, c]) to Init and records nothing; a by-name
\* lookup of any other name is recorded whether or not it is registered, and
\* a HasComponent of any name, c included, is recorded when it is registered.
TrackedOutcomes(c, p, reg) ==
    LET names == NamesOf(p)
        types == TypesOf(p)
        picks == { f \in [types -> reg \cup {NoMatch}] :
                     \A t \in types :
                        IF TypeMatches(t, reg) = {} THEN f[t] = NoMatch
                        ELSE f[t] \in TypeMatches(t, reg) }
    IN { [ deps    |-> (names \ {c})
                       \cup ({ f[t] : t \in types } \ {NoMatch, c})
                       \cup (HasOf(p) \cap reg),
           self    |-> (c \in names) \/ (\E t \in types : f[t] = c),
           missing |-> (names \ {c}) \ reg # {},
           log     |-> TrackedLog(c, names, types, f, reg)
                       \cup HasLog("tracking", c, p, reg) ] : f \in picks }

\* What the lookups of Init(container) for component c with body p are
\* handed by the real container: by name the registry's Get, by type the
\* first exact match in map order, else the first assignable component,
\* else ComponentTypeNotFound; the component itself is returned like any other.
RealOutcomes(c, p, reg) ==
    LET names == NamesOf(p)
        types == TypesOf(p)
        picks == { f \in [types -> reg \cup {NoMatch}] :
                     \A t \in types :
                        IF TypeMatches(t, reg) = {} THEN f[t] = NoMatch
                        ELSE f[t] \in TypeMatches(t, reg) }
    IN { { [ctx |-> "real", by |-> c, kind |-> "name", arg |-> n,
            comp |-> IF n \in reg THEN n ELSE NoMatch,
            code |-> IF n \in reg THEN "OK" ELSE "COMPONENT_NOT_FOUND"]
           : n \in names }
         \cup
         { [ctx |-> "real", by |-> c, kind |-> "type", arg |-> t,
            comp |-> f[t],
            code |-> IF f[t] = NoMatch THEN "COMPONENT_TYPE_NOT_FOUND"
                     ELSE "OK"]
           : t \in types }
         \cup HasLog("real", c, p, reg)
         : f \in picks }

-----------------------------------------------------------------------------
(* Cycle detection of the resolver                                          *)

RECURSIVE DetectCycle(_, _, _, _, _)
RECURSIVE DetectIter(_, _, _, _, _)

NotFound(visited) == [found |-> FALSE, path |-> << >>, visited |-> visited]

\* Variant of detectCycle that looks one edge ahead and never recurses.
DetectCycleShallow(D, source, target, visited, path) ==
    IF source = target
    THEN { [found |-> TRUE, path |-> Append(path, target), visited |-> visited] }
    ELSE IF target \in visited
    THEN { NotFound(visited) }
    ELSE IF target \in DOMAIN D /\ source \in D[target]
    THEN { [found |-> TRUE, path |-> Append(Append(path, target), source),
            visited |-> visited \cup {target}] }
    ELSE { NotFound(visited \cup {target}) }

\* detectCycle(source, target, visited, path): the set of results over every
\* order in which `range r.dependencies[target]` may iterate.
DetectCycle(D, source, target, visited, path) ==
    IF source = target
    THEN { [found |-> TRUE, path |-> Append(path, target), visited |-> visited] }
    ELSE IF target \in visited
    THEN { NotFound(visited) }
    ELSE DetectIter(D, source, IF target \in DOMAIN D THEN D[target] ELSE {},
                    visited \cup {target}, Append(path, target))

DetectIter(D, source, todo, visited, path) ==
    IF todo = {} THEN { NotFound(visited) }
    ELSE UNION { UNION { IF r.found THEN {r}
                         ELSE DetectIter(D, source, todo \ {d}, r.visited, path)
                         : r \in DetectCycle(D, source, d, visited, path) }
                 : d \in todo }

RECURSIVE CycleCheck(_, _, _)

\* The loop `for dep := range deps` of DiscoverDependencies: the cycle paths
\* it may report, << >> standing for none.
CycleCheck(D, name, todo) ==
    IF todo = {} THEN { << >> }
    ELSE UNION { IF d = name THEN CycleCheck(D, name, todo \ {d})
                 ELSE UNION { IF r.found THEN { r.path }
                              ELSE CycleCheck(D, name, todo \ {d})
                              : r \in DetectCycle(D, name, d, {}, << name >>) }
                 : d \in todo }

-----------------------------------------------------------------------------
(* container.New up to the start phase                                      *)

Bump(f, n) == [f EXCEPT ![n] = @ + 1]

Zero(S) == [ n \in S |-> 0 ]

\* RecordDependencyCount, RecordInitDuration, RecordStartDuration and
\* RecordStopDuration of the collector m: nothing when metrics are disabled,
\* else the record of the name is made if it is missing and the field written.
RecordDependencyCount(m, name, count) ==
    IF ~metricsEnabled THEN m
    ELSE [m EXCEPT ![name] = [@ EXCEPT !.exists = TRUE,
                                       !.DependencyCount = count]]

RecordInitDuration(m, name) ==
    IF ~metricsEnabled THEN m
    ELSE [m EXCEPT ![name] = [@ EXCEPT !.exists = TRUE, !.InitDuration = TRUE]]

RecordStartDuration(m, name) ==
    IF ~metricsEnabled THEN m
    ELSE [m EXCEPT ![name] = [@ EXCEPT !.exists = TRUE, !.StartDuration = TRUE]]

RecordStopDuration(m, name) ==
    IF ~metricsEnabled THEN m
    ELSE [m EXCEPT ![name] = [@ EXCEPT !.exists = TRUE, !.StopDuration = TRUE]]

Fail(code, path, at) ==
    /\ err' = [code |-> code, path |-> path, at |-> at]
    /\ pc' = "failed"

\* RegisterComponent during the registration block: a duplicate name is
\* refused and the registry is left as it was.
Register(c) ==
    /\ pc = "block"
    /\ registry' = registry \cup {c}
    /\ components' = IF components[c] = Absent
                     THEN [components EXCEPT ![c] = 1] ELSE components
    /\ lifecycle' = IF CompType[c] = "Service" THEN lifecycle \cup {c}
                    ELSE lifecycle
    /\ UNCHANGED << pc, prog, discovered, dependencies, trackedInits,
                    realInits, selfLookups, missingLookups, err >>
    /\ UNCHANGED << initVars, startVars, stopVars, shutdownCalls >>
    /\ UNCHANGED taskVars
    /\ UNCHANGED phaseVars
    /\ UNCHANGED << regVars, varVars >>
    /\ UNCHANGED auxVars

\* block(res) returns and New takes its list of factories.
BlockReturn ==
    /\ pc = "block"
    /\ pc' = "factories"
    /\ phaseIdx' = 1
    /\ UNCHANGED << bootVars, err, initVars, startVars, stopVars,
                    shutdownCalls, factories, loaders, starters, phaseLog >>
    /\ UNCHANGED taskVars
    /\ UNCHANGED << regVars, varVars >>
    /\ UNCHANGED components
    /\ UNCHANGED auxVars

\* RegisterComponent by a factory or a starter: the error of the registry.
Registers(item) == item.reg # "none"

Refused(item) == Registers(item) /\ item.reg \in registry

\* What Create or Start returns: the error of a refused registration, or an
\* error of its own.
ItemFails(item) == Refused(item) \/ item.fails

RegisterBy(item) ==
    IF Registers(item) /\ ~Refused(item)
    THEN /\ registry' = registry \cup {item.reg}
         /\ components' = [components EXCEPT ![item.reg] = 1]
         /\ lifecycle' = IF CompType[item.reg] = "Service"
                         THEN lifecycle \cup {item.reg} ELSE lifecycle
    ELSE UNCHANGED << registry, components, lifecycle >>

\* What RegisterFactory, RegisterVariableLoader and RegisterStarter append
\* when Create, Load or Start calls one of them.  `late` says that the loop
\* over that list had begun: `range` took the slice before, so that loop
\* never reaches the appended item.
PlainFactory(late) ==
    [reg |-> "none", fails |-> FALSE, adds |-> "none", late |-> late]

PlainLoader(late) == [fails |-> FALSE, adds |-> "none", late |-> late]

PlainStarter(late) ==
    [cond |-> "none", reg |-> "none", fails |-> FALSE, members |-> << >>,
     adds |-> "none", late |-> late]

\* The three lists after the Create, Load or Start of item.
AddsBy(item) ==
    /\ factories' = IF item.adds = "factory"
                    THEN Append(factories, PlainFactory(TRUE)) ELSE factories
    /\ loaders' = IF item.adds = "loader"
                  THEN Append(loaders, PlainLoader(pc # "factories"))
                  ELSE loaders
    /\ starters' = IF item.adds = "starter"
                   THEN Append(starters, PlainStarter(pc = "starters"))
                   ELSE starters

\* The loop over list has items left: those the slice held when it began.
InRange(list) == phaseIdx <= Len(list) /\ ~list[phaseIdx].late

\* Variant of the factory loop that drops the error of Create.
FactoryStepIgnoresError ==
    /\ pc = "factories"
    /\ InRange(factories)
    /\ LET item == factories[phaseIdx] IN
       /\ RegisterBy(item)
       /\ AddsBy(item)
       /\ phaseLog' = Append(phaseLog, [phase |-> "factory", idx |-> phaseIdx,
                                        member |-> 0, call |-> "Create",
                                        ok |-> ~ItemFails(item)])
       /\ phaseIdx' = phaseIdx + 1
       /\ UNCHANGED << pc, err >>
    /\ UNCHANGED << prog, discovered, dependencies, trackedInits, realInits,
                    selfLookups, missingLookups, initVars, startVars, stopVars,
                    shutdownCalls >>
    /\ UNCHANGED taskVars
    /\ UNCHANGED << regVars, varVars >>
    /\ UNCHANGED auxVars

\* One iteration of `for _, factory := range res.factories`: Create may
\* register a component; its error makes New return.
FactoryStep ==
    /\ pc = "factories"
    /\ InRange(factories)
    /\ LET item == factories[phaseIdx] IN
       /\ RegisterBy(item)
       /\ AddsBy(item)
       /\ phaseLog' = Append(phaseLog, [phase |-> "factory", idx |-> phaseIdx,
                                        member |-> 0, call |-> "Create",
                                        ok |-> ~ItemFails(item)])
       /\ IF ItemFails(item)
          THEN Fail("FACTORY_FAILED", << >>, "factory") /\ UNCHANGED phaseIdx
          ELSE phaseIdx' = phaseIdx + 1 /\ UNCHANGED << pc, err >>
    /\ UNCHANGED << prog, discovered, dependencies, trackedInits, realInits,
                    selfLookups, missingLookups, initVars, startVars, stopVars,
                    shutdownCalls >>
    /\ UNCHANGED taskVars
    /\ UNCHANGED << regVars, varVars >>
    /\ UNCHANGED auxVars

\* The factory loop is over and New takes its list of variable loaders.
FactoriesDone ==
    /\ pc = "factories"
    /\ ~InRange(factories)
    /\ pc' = "loaders"
    /\ phaseIdx' = 1
    /\ UNCHANGED << bootVars, err, initVars, startVars, stopVars,
                    shutdownCalls, factories, loaders, starters, phaseLog >>
    /\ UNCHANGED taskVars
    /\ UNCHANGED << regVars, varVars >>
    /\ UNCHANGED components
    /\ UNCHANGED auxVars

\* One iteration of `for _, loader := range res.variablesLoaders`.
LoaderStep ==
    /\ pc = "loaders"
    /\ InRange(loaders)
    /\ LET item == loaders[phaseIdx] IN
       /\ AddsBy(item)
       /\ phaseLog' = Append(phaseLog, [phase |-> "loader", idx |-> phaseIdx,
                                        member |-> 0, call |-> "Load",
                                        ok |-> ~item.fails])
       /\ IF item.fails
          THEN Fail("LOADER_FAILED", << >>, "loader") /\ UNCHANGED phaseIdx
          ELSE phaseIdx' = phaseIdx + 1 /\ UNCHANGED << pc, err >>
    /\ UNCHANGED << bootVars, initVars, startVars, stopVars, shutdownCalls >>
    /\ UNCHANGED taskVars
    /\ UNCHANGED << regVars, varVars >>
    /\ UNCHANGED components
    /\ UNCHANGED auxVars

\* The loader loop is over and New calls runStarters.
LoadersDone ==
    /\ pc = "loaders"
    /\ ~InRange(loaders)
    /\ pc' = "starters"
    /\ phaseIdx' = 1
    /\ UNCHANGED << bootVars, err, initVars, startVars, stopVars,
                    shutdownCalls, factories, loaders, starters, phaseLog >>
    /\ UNCHANGED taskVars
    /\ UNCHANGED << regVars, varVars >>
    /\ UNCHANGED components
    /\ UNCHANGED auxVars

\* CompositeStarter.Start from its member k on, with the registry reg: each
\* member's Start is called in turn, a conditional member's like any other,
\* and the first error ends the loop.  The result is the registry the members
\* leave, their calls, and whether the composite returns an error.
RECURSIVE RunMembers(_, _, _)
RunMembers(ms, k, reg) ==
    IF k > Len(ms) THEN [reg |-> reg, log |-> << >>, failed |-> FALSE]
    ELSE LET m == ms[k]
             refused == m.reg # "none" /\ m.reg \in reg
             fails == refused \/ m.fails
             after == IF m.reg # "none" THEN reg \cup {m.reg} ELSE reg
             entry == [phase |-> "starter", idx |-> phaseIdx, member |-> k,
                       call |-> "Start", ok |-> ~fails]
         IN IF fails THEN [reg |-> after, log |-> << entry >>, failed |-> TRUE]
            ELSE LET rest == RunMembers(ms, k + 1, after)
                 IN [reg |-> rest.reg, log |-> << entry >> \o rest.log,
                     failed |-> rest.failed]

\* The registry after the components of `added` were registered.
RegisterAll(added) ==
    /\ registry' = registry \cup added
    /\ components' = [ n \in DOMAIN components |->
                         IF n \in added \ registry THEN 1 ELSE components[n] ]
    /\ lifecycle' = lifecycle \cup
                       { n \in added \ registry : CompType[n] = "Service" }

\* One iteration of `for _, starter := range c.starters` in runStarters: a
\* ConditionalStarter is asked ShouldStart and skipped on false; Start may
\* register a component, and the Start of a CompositeStarter calls the Start
\* of its members; its error makes runStarters, and New, return.
StarterStep ==
    /\ pc = "starters"
    /\ InRange(starters)
    /\ LET item == starters[phaseIdx]
           asked == IF item.cond = "none" THEN << >>
                    ELSE << [phase |-> "starter", idx |-> phaseIdx,
                             member |-> 0, call |-> "ShouldStart",
                             ok |-> item.cond = "true"] >>
           run == RunMembers(item.members, 1, registry)
           failed == IF item.members = << >> THEN ItemFails(item) ELSE run.failed
       IN IF item.cond = "false"
          THEN /\ phaseLog' = phaseLog \o asked
               /\ phaseIdx' = phaseIdx + 1
               /\ UNCHANGED << pc, err, registry, components, lifecycle,
                               factories, loaders, starters >>
          ELSE /\ IF item.members = << >> THEN RegisterBy(item)
                  ELSE RegisterAll(run.reg)
               /\ AddsBy(item)
               /\ phaseLog' = ((phaseLog \o asked) \o
                                << [phase |-> "starter", idx |-> phaseIdx,
                                    member |-> 0, call |-> "Start",
                                    ok |-> ~failed] >>) \o run.log
               /\ IF failed
                  THEN Fail("STARTER_FAILED", << >>, "starter")
                       /\ UNCHANGED phaseIdx
                  ELSE phaseIdx' = phaseIdx + 1 /\ UNCHANGED << pc, err >>
    /\ UNCHANGED << prog, discovered, dependencies, trackedInits, realInits,
                    selfLookups, missingLookups, initVars, startVars, stopVars,
                    shutdownCalls >>
    /\ UNCHANGED taskVars
    /\ UNCHANGED << regVars, varVars >>
    /\ UNCHANGED auxVars

\* runStarters returns nil and New calls DiscoverDependencies.
BeginDiscovery ==
    /\ pc = "starters"
    /\ ~InRange(starters)
    /\ pc' = "discover"
    /\ UNCHANGED << bootVars, err, initVars, startVars, stopVars,
                    shutdownCalls >>
    /\ UNCHANGED taskVars
    /\ UNCHANGED phaseVars
    /\ UNCHANGED << regVars, varVars >>
    /\ UNCHANGED components
    /\ UNCHANGED auxVars

\* One iteration of `for name := range components` in DiscoverDependencies:
\* Init runs against the tracking context, its error is dropped, the access
\* set is stored and each of its edges is checked for a cycle.
DiscoverStep(name) ==
    /\ pc = "discover"
    /\ name \in registry \ discovered
    /\ \E out \in TrackedOutcomes(name, prog[name], registry) :
         LET deps == [dependencies EXCEPT ![name] = out.deps] IN
         /\ dependencies' = deps
         /\ discovered' = discovered \cup {name}
         /\ trackedInits' = Bump(trackedInits, name)
         /\ selfLookups' = IF out.self THEN selfLookups \cup {name}
                           ELSE selfLookups
         /\ missingLookups' = IF out.missing THEN missingLookups \cup {name}
                              ELSE missingLookups
         /\ lookupLog' = lookupLog \cup out.log
         /\ metrics' = RecordDependencyCount(metrics, name,
                                              Cardinality(out.deps))
         /\ \E cycle \in CycleCheck(deps, name, out.deps) :
              IF cycle # << >>
              THEN Fail("CIRCULAR_DEPENDENCY", cycle, "discover")
              ELSE UNCHANGED << pc, err >>
    /\ UNCHANGED << registry, prog, lifecycle, realInits >>
    /\ UNCHANGED << initVars, startVars, stopVars, shutdownCalls >>
    /\ UNCHANGED taskVars
    /\ UNCHANGED phaseVars
    /\ UNCHANGED << regVars, varVars >>
    /\ UNCHANGED components
    /\ UNCHANGED << metricsEnabled, callerHolds, delayCancelled, app >>

\* DiscoverDependencies returns nil once every registered name was visited.
DiscoverDone ==
    /\ pc = "discover"
    /\ discovered = registry
    /\ pc' = "validate"
    /\ UNCHANGED << bootVars, err, initVars, startVars, stopVars,
                    shutdownCalls >>
    /\ UNCHANGED taskVars
    /\ UNCHANGED phaseVars
    /\ UNCHANGED << regVars, varVars >>
    /\ UNCHANGED components
    /\ UNCHANGED auxVars

\* The discovered dependency names the registry does not hold.
Unregistered ==
    { d \in UNION { dependencies[n] : n \in discovered } : d \notin registry }

\* ValidateDependencies: any discovered dependency that is not registered
\* makes New return ComponentNotFound; otherwise New builds the initializer.
ValidateDependencies ==
    /\ pc = "validate"
    /\ IF Unregistered # {}
       THEN \E d \in Unregistered : Fail("COMPONENT_NOT_FOUND", << d >>, "validate")
       ELSE pc' = "init" /\ UNCHANGED err
    /\ UNCHANGED << bootVars, initVars, startVars, stopVars, shutdownCalls >>
    /\ UNCHANGED taskVars
    /\ UNCHANGED phaseVars
    /\ UNCHANGED << regVars, varVars >>
    /\ UNCHANGED components
    /\ UNCHANGED auxVars

-----------------------------------------------------------------------------
(* defaultComponentInitializer                                              *)

Visited(stk) == { stk[i].name : i \in 1..Len(stk) }

PathOf(stk) == [ i \in 1..Len(stk) |-> stk[i].name ]

\* Variant of initComponent's entry without the `if i.initialized[name]` test.
InitCallNoSkip(name, base) ==
    IF name \in Visited(base)
    THEN /\ stack' = << >>
         /\ Fail("CIRCULAR_DEPENDENCY", Append(PathOf(base), name), "init")
    ELSE IF name \notin registry
    THEN /\ stack' = << >>
         /\ Fail("COMPONENT_NOT_FOUND", << name >>, "init")
    ELSE /\ stack' = Append(base,
                [name |-> name,
                 todo |-> (IF name \in discovered THEN dependencies[name] ELSE {})
                          \ {name}])
         /\ UNCHANGED << pc, err >>

\* Variant of initComponent's entry without the `if visited[name]` test.
InitCallNoVisited(name, base) ==
    IF name \in initialized
    THEN stack' = base /\ UNCHANGED << pc, err >>
    ELSE IF name \notin registry
    THEN /\ stack' = << >>
         /\ Fail("COMPONENT_NOT_FOUND", << name >>, "init")
    ELSE /\ stack' = Append(base,
                [name |-> name,
                 todo |-> (IF name \in discovered THEN dependencies[name] ELSE {})
                          \ {name}])
         /\ UNCHANGED << pc, err >>

\* Entry of initComponent(name, visited, path) below the frames `base`:
\* nothing to do for an initialized name, CircularDependency for a name on
\* the active path, ComponentNotFound for an unregistered one, otherwise a
\* new frame whose loop still has every dependency but the name itself to visit.
InitCall(name, base) ==
    IF name \in initialized
    THEN stack' = base /\ UNCHANGED << pc, err >>
    ELSE IF name \in Visited(base)
    THEN /\ stack' = << >>
         /\ Fail("CIRCULAR_DEPENDENCY", Append(PathOf(base), name), "init")
    ELSE IF name \notin registry
    THEN /\ stack' = << >>
         /\ Fail("COMPONENT_NOT_FOUND", << name >>, "init")
    ELSE /\ stack' = Append(base,
                [name |-> name,
                 todo |-> (IF name \in discovered THEN dependencies[name] ELSE {})
                          \ {name}])
         /\ UNCHANGED << pc, err >>

\* InitializeAll: `for name := range components`, skipping initialized names.
InitTop ==
    /\ pc = "init"
    /\ stack = << >>
    /\ \E name \in registry \ initialized : InitCall(name, << >>)
    /\ UNCHANGED << bootVars, initialized, initOrder, startVars, stopVars,
                    shutdownCalls >>
    /\ UNCHANGED taskVars
    /\ UNCHANGED phaseVars
    /\ UNCHANGED << regVars, varVars >>
    /\ UNCHANGED components
    /\ UNCHANGED auxVars

\* initComponent: `for depName := range deps` takes its next dependency.
InitDescend ==
    /\ pc = "init"
    /\ stack # << >>
    /\ LET n == Len(stack)
           top == stack[n]
       IN /\ top.todo # {}
          /\ \E d \in top.todo :
               InitCall(d, [stack EXCEPT ![n].todo = top.todo \ {d}])
    /\ UNCHANGED << bootVars, initialized, initOrder, startVars, stopVars,
                    shutdownCalls >>
    /\ UNCHANGED taskVars
    /\ UNCHANGED phaseVars
    /\ UNCHANGED << regVars, varVars >>
    /\ UNCHANGED components
    /\ UNCHANGED auxVars

\* Variant of initComponent without the call of RecordInitDuration.
RealInitNoMetrics(name) ==
    /\ \E log \in RealOutcomes(name, prog[name], registry) :
         lookupLog' = lookupLog \cup log
    /\ UNCHANGED << metricsEnabled, metrics, callerHolds, delayCancelled, app >>

\* comp.Init(i.container) and RecordInitDuration: the lookups of the body
\* on the real container, then the duration written.
RealInitEffects(name) ==
    /\ \E log \in RealOutcomes(name, prog[name], registry) :
         lookupLog' = lookupLog \cup log
    /\ metrics' = RecordInitDuration(metrics, name)
    /\ UNCHANGED << metricsEnabled, callerHolds, delayCancelled, app >>

\* Variant of initComponent that runs the real Init without having visited
\* the dependencies left in its loop.
InitRealBeforeDeps ==
    /\ pc = "init"
    /\ stack # << >>
    /\ LET n == Len(stack)
           name == stack[n].name
       IN /\ realInits' = Bump(realInits, name)
          /\ initialized' = initialized \cup {name}
          /\ initOrder' = Append(initOrder, name)
          /\ stack' = SubSeq(stack, 1, n - 1)
    /\ UNCHANGED << pc, registry, prog, lifecycle, discovered, dependencies,
                    trackedInits, selfLookups, missingLookups, err >>
    /\ UNCHANGED << startVars, stopVars, shutdownCalls >>
    /\ UNCHANGED taskVars
    /\ UNCHANGED phaseVars
    /\ UNCHANGED << regVars, varVars >>
    /\ UNCHANGED components
    /\ RealInitEffects(stack[Len(stack)].name)

\* Variant of initComponent that marks the component initialized without
\* appending it to initOrder.
InitRealNoAppend ==
    /\ pc = "init"
    /\ stack # << >>
    /\ LET n == Len(stack)
           name == stack[n].name
       IN /\ stack[n].todo = {}
          /\ realInits' = Bump(realInits, name)
          /\ initialized' = initialized \cup {name}
          /\ stack' = SubSeq(stack, 1, n - 1)
    /\ UNCHANGED << pc, registry, prog, lifecycle, discovered, dependencies,
                    trackedInits, selfLookups, missingLookups, err, initOrder >>
    /\ UNCHANGED << startVars, stopVars, shutdownCalls >>
    /\ UNCHANGED taskVars
    /\ UNCHANGED phaseVars
    /\ UNCHANGED << regVars, varVars >>
    /\ UNCHANGED components
    /\ RealInitEffects(stack[Len(stack)].name)

\* initComponent after its loop: the real Init, then the bookkeeping.
InitReal ==
    /\ pc = "init"
    /\ stack # << >>
    /\ LET n == Len(stack)
           name == stack[n].name
       IN /\ stack[n].todo = {}
          /\ realInits' = Bump(realInits, name)
          /\ initialized' = initialized \cup {name}
          /\ initOrder' = Append(initOrder, name)
          /\ stack' = SubSeq(stack, 1, n - 1)
    /\ UNCHANGED << pc, registry, prog, lifecycle, discovered, dependencies,
                    trackedInits, selfLookups, missingLookups, err >>
    /\ UNCHANGED << startVars, stopVars, shutdownCalls >>
    /\ UNCHANGED taskVars
    /\ UNCHANGED phaseVars
    /\ UNCHANGED << regVars, varVars >>
    /\ UNCHANGED components
    /\ RealInitEffects(stack[Len(stack)].name)

\* InitializeAll returns nil; New builds the lifecycle manager from
\* GetInitOrder() and calls StartAll, which makes errChan.
InitDone ==
    /\ pc = "init"
    /\ stack = << >>
    /\ registry \subseteq initialized
    /\ pc' = "start"
    /\ lmOrder' = initOrder
    /\ startIdx' = 1
    /\ errChan' = << >>
    /\ errChanClosed' = FALSE
    /\ startupErr' = Zero(DOMAIN startupErr)
    /\ UNCHANGED << bootVars, err, initVars, startState, startCalls, stopVars,
                    shutdownCalls >>
    /\ UNCHANGED taskVars
    /\ UNCHANGED phaseVars
    /\ UNCHANGED << regVars, varVars >>
    /\ UNCHANGED components
    /\ UNCHANGED auxVars

-----------------------------------------------------------------------------
(* defaultLifecycleManager.StartAll                                         *)

Running(state) == { n \in DOMAIN state : state[n] = "running" }

\* batchSize of StopAll
BatchSize == 5

Total == Len(lmOrder)

Batches == (Total + BatchSize - 1) \div BatchSize

Max(x, y) == IF x > y THEN x ELSE y

BatchStartIdx(batch) == Total - (batch * BatchSize) - 1

\* Variant of endIdx that reaches one position further down.
BatchEndIdxOverlap(batch) == Max(Total - ((batch + 1) * BatchSize) - 1, 0)

BatchEndIdx(batch) == Max(Total - ((batch + 1) * BatchSize), 0)

\* StopAll's entry: the batch loop starts at batch 0 with no goroutine.
BeginStopAll ==
    /\ stopPc' = "loop"
    /\ stopBatch' = 0
    /\ stopIdx' = BatchStartIdx(0)
    /\ stopState' = [ n \in DOMAIN stopState |-> "idle" ]
    /\ stopLog' = << >>
    /\ stopPanics' = {}
    /\ UNCHANGED stopCalls

\* Variant of the launch loop that starts a component only when no other
\* Start is in progress.
StartLaunchSerial ==
    /\ pc = "start"
    /\ startIdx <= Len(lmOrder)
    /\ Running(startState) = {}
    /\ LET name == lmOrder[startIdx] IN
       /\ startIdx' = startIdx + 1
       /\ IF name \in lifecycle
          THEN /\ startState' = [startState EXCEPT ![name] = "running"]
               /\ startCalls' = Bump(startCalls, name)
          ELSE UNCHANGED << startState, startCalls >>
    /\ UNCHANGED << pc, err, bootVars, initVars, lmOrder, errChan,
                    errChanClosed, startupErr, stopVars, shutdownCalls >>
    /\ UNCHANGED taskVars
    /\ UNCHANGED phaseVars
    /\ UNCHANGED << regVars, varVars >>
    /\ UNCHANGED components
    /\ UNCHANGED auxVars

\* One iteration of `for _, name := range m.initOrder`: a component with
\* Start/Stop gets its own goroutine, which calls Start; the loop goes on
\* without waiting for it.
StartLaunch ==
    /\ pc = "start"
    /\ startIdx <= Len(lmOrder)
    /\ LET name == lmOrder[startIdx] IN
       IF name \notin registry
       THEN /\ Fail("COMPONENT_NOT_FOUND", << name >>, "start")
            /\ UNCHANGED << startIdx, startState, startCalls >>
       ELSE /\ startIdx' = startIdx + 1
            /\ IF name \in lifecycle
               THEN /\ startState' = [startState EXCEPT ![name] = "running"]
                    /\ startCalls' = Bump(startCalls, name)
               ELSE UNCHANGED << startState, startCalls >>
            /\ UNCHANGED << pc, err >>
    /\ UNCHANGED << bootVars, initVars, lmOrder, errChan, errChanClosed,
                    startupErr, stopVars, shutdownCalls >>
    /\ UNCHANGED taskVars
    /\ UNCHANGED phaseVars
    /\ UNCHANGED << regVars, varVars >>
    /\ UNCHANGED components
    /\ UNCHANGED auxVars

\* comp.Start(ctx) returns; the goroutine records metrics, launches the
\* goroutine of a BackgroundComponent and the one of a ScheduledComponent,
\* and ends (wg.Done).
StartReturn(c) ==
    /\ startState[c] = "running"
    /\ startState' = [startState EXCEPT ![c] = "returned"]
    /\ runState' = IF c \in background
                   THEN [runState EXCEPT ![c] = "launched"] ELSE runState
    /\ schedPc' = IF c \in scheduled
                  THEN [schedPc EXCEPT ![c] = "launched"] ELSE schedPc
    /\ UNCHANGED << pc, bootVars, err, initVars, lmOrder, startIdx, startCalls,
                    errChan, errChanClosed, startupErr, stopVars,
                    shutdownCalls >>
    /\ UNCHANGED << background, scheduled, runOnStartup, hasDelay, ctxDone,
                    execCalls, tickBuffered >>
    /\ UNCHANGED phaseVars
    /\ UNCHANGED << regVars, varVars >>
    /\ UNCHANGED components
    /\ metrics' = RecordStartDuration(metrics, c)
    /\ UNCHANGED << metricsEnabled, lookupLog, callerHolds,
                    delayCancelled, app >>

\* Variant of the start goroutine that launches the goroutines of Run and
\* of the scheduler from a deferred function, after a panic of Start as well.
StartPanicStillLaunches(c) ==
    /\ startState[c] = "running"
    /\ Len(errChan) < Len(lmOrder)
    /\ errChan' = Append(errChan, c)
    /\ startState' = [startState EXCEPT ![c] = "panicked"]
    /\ runState' = IF c \in background
                   THEN [runState EXCEPT ![c] = "launched"] ELSE runState
    /\ schedPc' = IF c \in scheduled
                  THEN [schedPc EXCEPT ![c] = "launched"] ELSE schedPc
    /\ UNCHANGED << pc, bootVars, err, initVars, lmOrder, startIdx, startCalls,
                    errChanClosed, startupErr, stopVars, shutdownCalls >>
    /\ UNCHANGED << background, scheduled, runOnStartup, hasDelay, ctxDone,
                    execCalls, tickBuffered >>
    /\ UNCHANGED phaseVars
    /\ UNCHANGED << regVars, varVars >>
    /\ UNCHANGED components
    /\ UNCHANGED auxVars

\* Variant of StartAll whose errChan buffers one error.
StartPanicSmallBuffer(c) ==
    /\ startState[c] = "running"
    /\ Len(errChan) < 1
    /\ errChan' = Append(errChan, c)
    /\ startState' = [startState EXCEPT ![c] = "panicked"]
    /\ UNCHANGED << pc, bootVars, err, initVars, lmOrder, startIdx, startCalls,
                    errChanClosed, startupErr, stopVars, shutdownCalls >>
    /\ UNCHANGED taskVars
    /\ UNCHANGED phaseVars
    /\ UNCHANGED << regVars, varVars >>
    /\ UNCHANGED components
    /\ UNCHANGED auxVars

\* comp.Start(ctx) panics: the deferred recover sends the error on errChan,
\* whose buffer holds len(initOrder) errors, and the goroutine ends (wg.Done).
StartPanic(c) ==
    /\ startState[c] = "running"
    /\ Len(errChan) < Len(lmOrder)
    /\ errChan' = Append(errChan, c)
    /\ startState' = [startState EXCEPT ![c] = "panicked"]
    /\ UNCHANGED << pc, bootVars, err, initVars, lmOrder, startIdx, startCalls,
                    errChanClosed, startupErr, stopVars, shutdownCalls >>
    /\ UNCHANGED taskVars
    /\ UNCHANGED phaseVars
    /\ UNCHANGED << regVars, varVars >>
    /\ UNCHANGED components
    /\ UNCHANGED auxVars

\* Variant of the waiter goroutine that closes errChan without wg.Wait().
StartCloseNoWait ==
    /\ pc = "start"
    /\ startIdx > Len(lmOrder)
    /\ ~errChanClosed
    /\ errChanClosed' = TRUE
    /\ UNCHANGED << pc, bootVars, err, initVars, lmOrder, startIdx, startState,
                    startCalls, errChan, startupErr, stopVars, shutdownCalls >>
    /\ UNCHANGED taskVars
    /\ UNCHANGED phaseVars
    /\ UNCHANGED << regVars, varVars >>
    /\ UNCHANGED components
    /\ UNCHANGED auxVars

\* The waiter goroutine made after the loop: wg.Wait() returns when no start
\* goroutine is left, then close(errChan).
StartClose ==
    /\ pc = "start"
    /\ startIdx > Len(lmOrder)
    /\ Running(startState) = {}
    /\ ~errChanClosed
    /\ errChanClosed' = TRUE
    /\ UNCHANGED << pc, bootVars, err, initVars, lmOrder, startIdx, startState,
                    startCalls, errChan, startupErr, stopVars, shutdownCalls >>
    /\ UNCHANGED taskVars
    /\ UNCHANGED phaseVars
    /\ UNCHANGED << regVars, varVars >>
    /\ UNCHANGED components
    /\ UNCHANGED auxVars

\* Variant of the collection loop that keeps the first error only.
StartCollectFirstOnly ==
    /\ pc = "start"
    /\ startIdx > Len(lmOrder)
    /\ errChan # << >>
    /\ startupErr' = IF \A n \in DOMAIN startupErr : startupErr[n] = 0
                     THEN Bump(startupErr, Head(errChan))
                     ELSE startupErr
    /\ errChan' = Tail(errChan)
    /\ UNCHANGED << pc, bootVars, err, initVars, lmOrder, startIdx, startState,
                    startCalls, errChanClosed, stopVars, shutdownCalls >>
    /\ UNCHANGED taskVars
    /\ UNCHANGED phaseVars
    /\ UNCHANGED << regVars, varVars >>
    /\ UNCHANGED components
    /\ UNCHANGED auxVars

\* `for err := range errChan` receives one error and joins it to startupErr.
StartCollect ==
    /\ pc = "start"
    /\ startIdx > Len(lmOrder)
    /\ errChan # << >>
    /\ startupErr' = Bump(startupErr, Head(errChan))
    /\ errChan' = Tail(errChan)
    /\ UNCHANGED << pc, bootVars, err, initVars, lmOrder, startIdx, startState,
                    startCalls, errChanClosed, stopVars, shutdownCalls >>
    /\ UNCHANGED taskVars
    /\ UNCHANGED phaseVars
    /\ UNCHANGED << regVars, varVars >>
    /\ UNCHANGED components
    /\ UNCHANGED auxVars

\* startupErr == nil
IsNil(e) == \A n \in DOMAIN e : e[n] = 0

\* The range loop ends on the closed, drained channel and StartAll returns
\* startupErr.  New returns the context and the shutdown function when it is
\* nil, and otherwise calls StopAll before returning the error.
StartAllReturn ==
    /\ pc = "start"
    /\ startIdx > Len(lmOrder)
    /\ errChan = << >>
    /\ errChanClosed
    /\ IF IsNil(startupErr)
       THEN /\ pc' = "running"
            /\ UNCHANGED << err, stopVars >>
       ELSE /\ pc' = "cleanup"
            /\ err' = [code |-> "START_PANIC", path |-> << >>, at |-> "start"]
            /\ BeginStopAll
    /\ UNCHANGED << bootVars, initVars, startVars, shutdownCalls >>
    /\ UNCHANGED taskVars
    /\ UNCHANGED phaseVars
    /\ UNCHANGED << regVars, varVars >>
    /\ UNCHANGED components
    /\ UNCHANGED auxVars

-----------------------------------------------------------------------------
(* defaultLifecycleManager.StopAll                                          *)

\* Variant of New that hands out the shutdown function when StartAll is
\* called instead of when it has returned.
ShutdownEarly ==
    /\ pc \in {"start", "running"}
    /\ stopPc = "idle"
    /\ shutdownCalls < MaxShutdownCalls
    /\ shutdownCalls' = shutdownCalls + 1
    /\ BeginStopAll
    /\ UNCHANGED << pc, bootVars, err, initVars, startVars >>
    /\ UNCHANGED taskVars
    /\ UNCHANGED phaseVars
    /\ UNCHANGED << regVars, varVars >>
    /\ UNCHANGED components
    /\ UNCHANGED auxVars

\* A call of the shutdown function New returned: StopAll(ctx).
Shutdown ==
    /\ pc = "running"
    /\ stopPc = "idle"
    /\ shutdownCalls < MaxShutdownCalls
    /\ shutdownCalls' = shutdownCalls + 1
    /\ BeginStopAll
    /\ UNCHANGED << pc, bootVars, err, initVars, startVars >>
    /\ UNCHANGED taskVars
    /\ UNCHANGED phaseVars
    /\ UNCHANGED << regVars, varVars >>
    /\ UNCHANGED components
    /\ UNCHANGED auxVars

\* One iteration of `for i := startIdx; i >= endIdx; i--`: a component with
\* Start/Stop gets its own goroutine, which calls Stop.
StopLaunch ==
    /\ stopPc = "loop"
    /\ stopBatch < Batches
    /\ stopIdx >= BatchEndIdx(stopBatch)
    /\ stopIdx' = stopIdx - 1
    /\ IF stopIdx < 0 \/ stopIdx >= Total
       THEN UNCHANGED << stopState, stopCalls, stopLog >>
       ELSE LET name == lmOrder[stopIdx + 1] IN
            IF name \in registry /\ name \in lifecycle
            THEN /\ stopState' = [stopState EXCEPT ![name] = "running"]
                 /\ stopCalls' = Bump(stopCalls, name)
                 /\ stopLog' = Append(stopLog, name)
            ELSE UNCHANGED << stopState, stopCalls, stopLog >>
    /\ UNCHANGED << pc, bootVars, err, initVars, startVars, stopPc, stopBatch,
                    stopPanics, shutdownCalls >>
    /\ UNCHANGED taskVars
    /\ UNCHANGED phaseVars
    /\ UNCHANGED << regVars, varVars >>
    /\ UNCHANGED components
    /\ UNCHANGED auxVars

\* comp.Stop(ctx) returns; metrics, then batchWg.Done.
StopReturn(c) ==
    /\ stopState[c] = "running"
    /\ stopState' = [stopState EXCEPT ![c] = "done"]
    /\ UNCHANGED << pc, bootVars, err, initVars, startVars, stopPc, stopBatch,
                    stopIdx, stopCalls, stopLog, stopPanics, shutdownCalls >>
    /\ UNCHANGED taskVars
    /\ UNCHANGED phaseVars
    /\ UNCHANGED << regVars, varVars >>
    /\ UNCHANGED components
    /\ metrics' = RecordStopDuration(metrics, c)
    /\ UNCHANGED << metricsEnabled, lookupLog, callerHolds,
                    delayCancelled, app >>

\* Variant of the stop goroutine without the deferred recover: the panic of
\* Stop ends StopAll where it stands.
StopPanicAborts(c) ==
    /\ stopState[c] = "running"
    /\ stopState' = [stopState EXCEPT ![c] = "done"]
    /\ stopPanics' = stopPanics \cup {c}
    /\ stopPc' = "idle"
    /\ pc' = IF pc = "cleanup" THEN "failed" ELSE pc
    /\ UNCHANGED << bootVars, err, initVars, startVars, stopBatch, stopIdx,
                    stopCalls, stopLog, shutdownCalls >>
    /\ UNCHANGED taskVars
    /\ UNCHANGED phaseVars
    /\ UNCHANGED << regVars, varVars >>
    /\ UNCHANGED components
    /\ UNCHANGED auxVars

\* comp.Stop(ctx) panics; the deferred recover logs it, then batchWg.Done.
StopPanic(c) ==
    /\ stopState[c] = "running"
    /\ stopState' = [stopState EXCEPT ![c] = "done"]
    /\ stopPanics' = stopPanics \cup {c}
    /\ UNCHANGED << pc, bootVars, err, initVars, startVars, stopPc, stopBatch,
                    stopIdx, stopCalls, stopLog, shutdownCalls >>
    /\ UNCHANGED taskVars
    /\ UNCHANGED phaseVars
    /\ UNCHANGED << regVars, varVars >>
    /\ UNCHANGED components
    /\ UNCHANGED auxVars

\* Variant of the batch loop without batchWg.Wait().
StopBatchDoneNoWait ==
    /\ stopPc = "loop"
    /\ stopBatch < Batches
    /\ stopIdx < BatchEndIdx(stopBatch)
    /\ stopBatch' = stopBatch + 1
    /\ stopIdx' = BatchStartIdx(stopBatch + 1)
    /\ UNCHANGED << pc, bootVars, err, initVars, startVars, stopPc, stopState,
                    stopCalls, stopLog, stopPanics, shutdownCalls >>
    /\ UNCHANGED taskVars
    /\ UNCHANGED phaseVars
    /\ UNCHANGED << regVars, varVars >>
    /\ UNCHANGED components
    /\ UNCHANGED auxVars

\* Variant of the stop goroutine whose batchWg.Done() is not deferred: a
\* Stop that panicked never releases the barrier of its batch.
StopBatchDoneNotDeferred ==
    /\ stopPc = "loop"
    /\ stopBatch < Batches
    /\ stopIdx < BatchEndIdx(stopBatch)
    /\ Running(stopState) = {}
    /\ stopPanics = {}
    /\ stopBatch' = stopBatch + 1
    /\ stopIdx' = BatchStartIdx(stopBatch + 1)
    /\ UNCHANGED << pc, bootVars, err, initVars, startVars, stopPc, stopState,
                    stopCalls, stopLog, stopPanics, shutdownCalls >>
    /\ UNCHANGED taskVars
    /\ UNCHANGED phaseVars
    /\ UNCHANGED << regVars, varVars >>
    /\ UNCHANGED components
    /\ UNCHANGED auxVars

\* batchWg.Wait() returns when no stop goroutine of the batch is left, and
\* the batch loop takes the next batch.
StopBatchDone ==
    /\ stopPc = "loop"
    /\ stopBatch < Batches
    /\ stopIdx < BatchEndIdx(stopBatch)
    /\ Running(stopState) = {}
    /\ stopBatch' = stopBatch + 1
    /\ stopIdx' = BatchStartIdx(stopBatch + 1)
    /\ UNCHANGED << pc, bootVars, err, initVars, startVars, stopPc, stopState,
                    stopCalls, stopLog, stopPanics, shutdownCalls >>
    /\ UNCHANGED taskVars
    /\ UNCHANGED phaseVars
    /\ UNCHANGED << regVars, varVars >>
    /\ UNCHANGED components
    /\ UNCHANGED auxVars

\* The batch loop is over and StopAll returns; on New's error path New then
\* returns the start error.
StopAllReturn ==
    /\ stopPc = "loop"
    /\ stopBatch >= Batches
    /\ stopPc' = "idle"
    /\ pc' = IF pc = "cleanup" THEN "failed" ELSE pc
    /\ UNCHANGED << bootVars, err, initVars, startVars, stopBatch, stopIdx,
                    stopState, stopCalls, stopLog, stopPanics, shutdownCalls >>
    /\ UNCHANGED taskVars
    /\ UNCHANGED phaseVars
    /\ UNCHANGED << regVars, varVars >>
    /\ UNCHANGED components
    /\ UNCHANGED auxVars

-----------------------------------------------------------------------------
(* Specifications                                                           *)

\* The map of a registry that holds one component for each name of reg.
ComponentsOf(reg, S) == [ n \in S |-> IF n \in reg THEN 1 ELSE Absent ]

\* No goroutine is calling the component registry.
NoRegistryCalls ==
    /\ muWriter = 0
    /\ muReaders = {}
    /\ thr = [ t \in Threads |-> IdleThread ]
    /\ regLog = << >>
    /\ regCalls = 0

\* No variable has been registered or read.
NoVariables ==
    /\ variables = [ n \in VarNames |-> Nil ]
    /\ varLog = << >>
    /\ varRead = NoRead

\* DefaultConfig(): EnableMetrics is true.
DefaultMetrics == metricsEnabled = TRUE

\* The collector of a container whose components `done` have been discovered
\* and initialized (they look nothing up) and whose components `started` have
\* had Start return.
MetricsAfter(S, done, started) ==
    [ n \in S |->
        IF n \in done
        THEN [exists |-> TRUE, DependencyCount |-> 0, InitDuration |-> TRUE,
              StartDuration |-> n \in started, StopDuration |-> FALSE]
        ELSE NoRecord ]

\* An application without factories, variable loaders and starters.
NoPhaseItems ==
    /\ factories = << >>
    /\ loaders = << >>
    /\ starters = << >>
    /\ phaseIdx = 1
    /\ phaseLog = << >>

\* An application none of whose components has Run or Execute.
NoTasks(S) ==
    /\ background = {}
    /\ scheduled = {}
    /\ runOnStartup = {}
    /\ hasDelay = {}
    /\ ctxDone = FALSE
    /\ runState = [ n \in S |-> "none" ]
    /\ schedPc = [ n \in S |-> "none" ]
    /\ execCalls = Zero(S)
    /\ tickBuffered = {}

\* The container as New has just built it, before the registration block,
\* for an application whose Init bodies are drawn from `programs`.
BootInit(programs) ==
    /\ pc = "block"
    /\ registry = {}
    /\ prog \in [Names -> programs]
    /\ lifecycle = {}
    /\ discovered = {}
    /\ dependencies = [ n \in Names |-> {} ]
    /\ trackedInits = Zero(Names)
    /\ realInits = Zero(Names)
    /\ selfLookups = {}
    /\ missingLookups = {}
    /\ err = NoError
    /\ initialized = {}
    /\ initOrder = << >>
    /\ stack = << >>
    /\ lmOrder = << >>
    /\ startIdx = 1
    /\ startState = [ n \in Names |-> "idle" ]
    /\ startCalls = Zero(Names)
    /\ errChan = << >>
    /\ errChanClosed = FALSE
    /\ startupErr = Zero(Names)
    /\ stopPc = "idle"
    /\ stopBatch = 0
    /\ stopIdx = 0
    /\ stopState = [ n \in Names |-> "idle" ]
    /\ stopCalls = Zero(Names)
    /\ stopLog = << >>
    /\ stopPanics = {}
    /\ shutdownCalls = 0
    /\ NoTasks(Names)
    /\ components = ComponentsOf(registry, Names)
    /\ NoRegistryCalls
    /\ NoVariables
    /\ metrics = MetricsAfter(Names, {}, {})
    /\ lookupLog = {}
    /\ callerHolds = NoHeld
    /\ delayCancelled = {}
    /\ app = NoApp

Init == BootInit(NamePrograms) /\ NoPhaseItems /\ DefaultMetrics

TypedInit == BootInit(TypedPrograms) /\ NoPhaseItems /\ DefaultMetrics

\* New at the call of StartAll, after InitializeAll initialized NumLife
\* components that look nothing up, in the order of NamePool; any of them
\* may have Start/Stop.
LifeOrder == [ i \in 1..NumLife |-> NamePool[i] ]

LifeInit ==
    /\ pc = "start"
    /\ registry = LifeNames
    /\ prog = [ n \in LifeNames |-> {} ]
    /\ lifecycle \in SUBSET LifeNames
    /\ discovered = LifeNames
    /\ dependencies = [ n \in LifeNames |-> {} ]
    /\ trackedInits = [ n \in LifeNames |-> 1 ]
    /\ realInits = [ n \in LifeNames |-> 1 ]
    /\ selfLookups = {}
    /\ missingLookups = {}
    /\ err = NoError
    /\ initialized = LifeNames
    /\ initOrder = LifeOrder
    /\ stack = << >>
    /\ lmOrder = LifeOrder
    /\ startIdx = 1
    /\ startState = [ n \in LifeNames |-> "idle" ]
    /\ startCalls = Zero(LifeNames)
    /\ errChan = << >>
    /\ errChanClosed = FALSE
    /\ startupErr = Zero(LifeNames)
    /\ stopPc = "idle"
    /\ stopBatch = 0
    /\ stopIdx = 0
    /\ stopState = [ n \in LifeNames |-> "idle" ]
    /\ stopCalls = Zero(LifeNames)
    /\ stopLog = << >>
    /\ stopPanics = {}
    /\ shutdownCalls = 0
    /\ NoTasks(LifeNames)
    /\ components = ComponentsOf(registry, LifeNames)
    /\ NoRegistryCalls
    /\ NoVariables
    /\ NoPhaseItems
    /\ DefaultMetrics
    /\ metrics = MetricsAfter(LifeNames, LifeNames, {})
    /\ lookupLog = {}
    /\ callerHolds = NoHeld
    /\ delayCancelled = {}
    /\ app = NoApp

BootNext ==
    \/ \E c \in Names : Register(c)
    \/ BlockReturn
    \/ FactoriesDone
    \/ LoadersDone
    \/ BeginDiscovery
    \/ \E c \in Names : DiscoverStep(c)
    \/ DiscoverDone
    \/ ValidateDependencies
    \/ InitTop
    \/ InitDescend
    \/ InitReal
    \/ InitDone

LifeNext ==
    \/ StartLaunch
    \/ \E c \in DOMAIN startState : StartReturn(c)
    \/ \E c \in DOMAIN startState : StartPanic(c)
    \/ StartClose
    \/ StartCollect
    \/ StartAllReturn
    \/ Shutdown
    \/ StopLaunch
    \/ \E c \in DOMAIN stopState : StopReturn(c)
    \/ \E c \in DOMAIN stopState : StopPanic(c)
    \/ StopBatchDone
    \/ StopAllReturn

Next == BootNext \/ LifeNext

Spec == Init /\ [][Next]_vars

SpecTyped == TypedInit /\ [][Next]_vars

SpecLife == LifeInit /\ [][LifeNext]_vars

-----------------------------------------------------------------------------
(* Vocabulary of the properties                                             *)

Pos(s, n) == CHOOSE i \in 1..Len(s) : s[i] = n

NoDuplicates(s) == \A i, j \in 1..Len(s) : i # j => s[i] # s[j]

IsPrefix(s, t) == Len(s) <= Len(t) /\ SubSeq(t, 1, Len(s)) = s

\* DiscoverDependencies has returned, with or without an error.
DiscoveryReturned ==
    pc \notin {"block", "factories", "loaders", "starters", "discover"}

\* InitializeAll has returned nil.
InitializeAllSucceeded ==
    \/ pc \in {"start", "cleanup", "running"}
    \/ pc = "failed" /\ err.at = "start"

\* StartAll has returned.
StartAllReturned ==
    \/ pc \in {"cleanup", "running"}
    \/ pc = "failed" /\ err.at = "start"

\* The edges between registered components that the Init bodies make the
\* tracking context record: every by-name lookup of another component.
ProgGraph ==
    [ x \in Names |-> IF x \in registry
                      THEN (NamesOf(prog[x]) \ {x}) \cap registry ELSE {} ]

RECURSIVE ReachFrom(_, _, _)
ReachFrom(G, S, n) ==
    IF n = 0 THEN S
    ELSE ReachFrom(G, S \cup UNION { G[x] : x \in S }, n - 1)

\* The nodes reachable from x along one or more edges of G.
Reachable(G, x) == ReachFrom(G, G[x], Cardinality(DOMAIN G))

OnCycle(G, x) == x \in Reachable(G, x)

CyclicNodes(G) == { x \in DOMAIN G : OnCycle(G, x) }

\* p = [x1, ..., xk, x1] with x1..xk distinct, k >= 2, and every consecutive
\* pair an edge the resolver stored.
IsCyclePath(p) ==
    /\ Len(p) >= 3
    /\ p[1] = p[Len(p)]
    /\ \A i \in 1..(Len(p) - 1) :
          /\ p[i] \in discovered
          /\ p[i + 1] \in dependencies[p[i]]
    /\ \A i, j \in 1..(Len(p) - 1) : i # j => p[i] # p[j]

\* Batch of StopAll that the component at 1-based position i of the
\* initialization order belongs to: groups of five counted from the end.
BatchOfPos(i) == (Len(lmOrder) - i) \div 5

BatchOf(c) == BatchOfPos(Pos(lmOrder, c))

RECURSIVE Reverse(_)
Reverse(s) == IF s = << >> THEN << >> ELSE Append(Reverse(Tail(s)), Head(s))

RECURSIVE Filter(_, _)
Filter(s, S) ==
    IF s = << >> THEN << >>
    ELSE IF Head(s) \in S THEN << Head(s) >> \o Filter(Tail(s), S)
    ELSE Filter(Tail(s), S)

-----------------------------------------------------------------------------
(* Properties                                                               *)

C2_OrderState ==
    /\ NoDuplicates(initOrder)
    /\ SeqToSet(initOrder) = initialized
    /\ InitializeAllSucceeded =>
          /\ SeqToSet(initOrder) = registry
          /\ Len(initOrder) = Cardinality(registry)

C2_InitOrder == []C2_OrderState /\ [][IsPrefix(initOrder, initOrder')]_vars

C2_Witness == pc = "running" /\ Len(initOrder) = 3

\* C3: when the Init bodies describe a cycle of two or more registered
\* components, DiscoverDependencies has failed by the time it returns, with
\* CircularDependency, whatever the order of discovery; the reported path
\* starts and ends with the same name, its consecutive pairs are discovered
\* edges, and when the cycles of the graph are disjoint it holds every member
\* of the cycle it reports.  Without such a cycle discovery reports none.
C3_CycleDetected ==
    DiscoveryReturned =>
       IF CyclicNodes(ProgGraph) # {}
       THEN /\ pc = "failed"
            /\ err.code = "CIRCULAR_DEPENDENCY"
            /\ err.at = "discover"
            /\ IsCyclePath(err.path)
            /\ (\A x \in CyclicNodes(ProgGraph) :
                   Cardinality(ProgGraph[x] \cap CyclicNodes(ProgGraph)) = 1)
               => SeqToSet(err.path) =
                     Reachable(ProgGraph, err.path[1]) \cap CyclicNodes(ProgGraph)
       ELSE err.code # "CIRCULAR_DEPENDENCY"

C3_Witness ==
    /\ pc = "failed"
    /\ err.code = "CIRCULAR_DEPENDENCY"
    /\ err.at = "discover"
    /\ Len(err.path) = 4
    /\ SeqToSet(err.path) = Names

\* C4 (as claimed): once a component's Init has looked the component itself
\* up during discovery, DiscoverDependencies returns CircularDependency with
\* the path [name, name].
C4_SelfLookupFailsDiscovery ==
    (DiscoveryReturned /\ selfLookups # {}) =>
       /\ pc = "failed"
       /\ err.code = "CIRCULAR_DEPENDENCY"
       /\ err.at = "discover"
       /\ \E c \in selfLookups : err.path = << c, c >>

\* C5 (as claimed): a by-name lookup of an unregistered component during
\* discovery does not make New fail before the initialization pass; the
\* missing component is reported by the initialization pass only.
C5_MissingDeferredToInit ==
    (missingLookups # {} /\ pc = "failed" /\ err.code = "COMPONENT_NOT_FOUND")
       => err.at = "init"

\* C6 (as claimed): when New has returned successfully, Init has been invoked
\* exactly once on every registered component.
C6_InitExactlyOnce ==
    pc = "running" =>
       \A c \in registry : trackedInits[c] + realInits[c] = 1

\* C6 (amended): when New has returned successfully, Init has been invoked
\* exactly twice on every registered component: once with the tracking
\* context during discovery and once with the real container; and never on
\* an unregistered one.
C6_InitOncePerPass ==
    pc = "running" =>
       \A c \in DOMAIN realInits :
          IF c \in registry
          THEN trackedInits[c] = 1 /\ realInits[c] = 1
          ELSE trackedInits[c] = 0 /\ realInits[c] = 0

C6_Witness ==
    /\ pc = "running"
    /\ registry = Names
    /\ \E c \in Names : dependencies[c] # {}

\* C7: Start is never invoked on a component without Start/Stop and never
\* twice on any; the launch loop never waits (its next iteration can run
\* while Start calls of other components are still in progress); and when
\* the loop is over Start has been invoked exactly once on every component
\* of the order that has Start/Stop, even while other Start calls have not
\* returned.
C7_StartOncePerLifecycle ==
    /\ \A c \in DOMAIN startCalls :
          /\ startCalls[c] <= 1
          /\ c \notin lifecycle => startCalls[c] = 0
    /\ (pc = "start" /\ startIdx <= Len(lmOrder)) => ENABLED StartLaunch
    /\ (pc = "start" /\ startIdx > Len(lmOrder)) \/ StartAllReturned =>
          \A c \in SeqToSet(lmOrder) \cap lifecycle : startCalls[c] = 1

C7_Witness ==
    /\ pc = "start"
    /\ startIdx > Len(lmOrder)
    /\ \E c1, c2, c3, c4 \in SeqToSet(lmOrder) :
          /\ startState[c1] = "running"
          /\ startState[c2] = "panicked"
          /\ startState[c3] = "returned"
          /\ c4 \notin lifecycle
          /\ Pos(lmOrder, c1) < Pos(lmOrder, c3)

C9_StopAtMostOnce == \A c \in DOMAIN stopCalls : stopCalls[c] <= 1

C11_DependentsStopFirst ==
    \A x \in registry \cap lifecycle :
       \A d \in (dependencies[x] \ {x}) \cap lifecycle :
          stopState[d] # "idle" => stopState[x] = "done"


\* Calls of StopAll made so far: one by New after a failed start phase, one
\* by each call of the shutdown function.
StopAllCalls ==
    shutdownCalls + (IF pc \in {"cleanup", "failed"} /\ err.at = "start"
                     THEN 1 ELSE 0)

\* C12: a panic of Stop ends neither the batch loop nor StopAll: while a batch
\* still has positions to take, the loop can take the next one whatever has
\* panicked; every component with Start/Stop of a finished batch has had Stop
\* invoked by this StopAll; when StopAll has returned, Stop has been invoked
\* on every component of the order with Start/Stop once per call of StopAll
\* and on no other; and the error New returns is untouched by StopAll (none
\* after a successful New, the start error on the cleanup path).
C12_StopReachesAll ==
    /\ (stopPc = "loop" /\ stopBatch < Batches
          /\ stopIdx >= BatchEndIdx(stopBatch)) => ENABLED StopLaunch
    /\ stopPc = "loop" =>
          \A c \in SeqToSet(lmOrder) \cap lifecycle :
             BatchOf(c) < stopBatch =>
                stopCalls[c] = StopAllCalls /\ stopState[c] = "done"
    /\ stopPc = "idle" =>
          \A c \in DOMAIN stopCalls :
             stopCalls[c] = IF c \in SeqToSet(lmOrder) \cap lifecycle
                            THEN StopAllCalls ELSE 0
    /\ pc = "running" => err = NoError
    /\ pc \in {"cleanup", "failed"} => err.code = "START_PANIC"

C12_Witness ==
    /\ pc = "running"
    /\ stopPc = "idle"
    /\ shutdownCalls = 1
    /\ \E c, d \in stopPanics : BatchOf(c) = 0 /\ BatchOf(d) = 1
    /\ \E c \in (SeqToSet(lmOrder) \cap lifecycle) \ stopPanics : BatchOf(c) = 0


-----------------------------------------------------------------------------
(* Shutdown of a running container, with the scheduling Go guarantees      *)

\* New has returned successfully for an application of n components that
\* look nothing up, any of them having Start/Stop; every Start has returned.
StopInit ==
    \E n \in 0..NumLife :
       LET reg == { NamePool[i] : i \in 1..n } IN
       /\ pc = "running"
       /\ registry = reg
       /\ prog = [ c \in LifeNames |-> {} ]
       /\ lifecycle \in SUBSET reg
       /\ discovered = reg
       /\ dependencies = [ c \in LifeNames |-> {} ]
       /\ trackedInits = [ c \in LifeNames |-> IF c \in reg THEN 1 ELSE 0 ]
       /\ realInits = [ c \in LifeNames |-> IF c \in reg THEN 1 ELSE 0 ]
       /\ selfLookups = {}
       /\ missingLookups = {}
       /\ err = NoError
       /\ initialized = reg
       /\ initOrder = SubSeq(LifeOrder, 1, n)
       /\ stack = << >>
       /\ lmOrder = SubSeq(LifeOrder, 1, n)
       /\ startIdx = n + 1
       /\ startState = [ c \in LifeNames |->
                           IF c \in lifecycle THEN "returned" ELSE "idle" ]
       /\ startCalls = [ c \in LifeNames |-> IF c \in lifecycle THEN 1 ELSE 0 ]
       /\ errChan = << >>
       /\ errChanClosed = TRUE
       /\ startupErr = Zero(LifeNames)
       /\ stopPc = "idle"
       /\ stopBatch = 0
       /\ stopIdx = 0
       /\ stopState = [ c \in LifeNames |-> "idle" ]
       /\ stopCalls = Zero(LifeNames)
       /\ stopLog = << >>
       /\ stopPanics = {}
       /\ shutdownCalls = 0
       /\ NoTasks(LifeNames)
       /\ components = ComponentsOf(registry, LifeNames)
       /\ NoRegistryCalls
       /\ NoVariables
       /\ NoPhaseItems
       /\ DefaultMetrics
       /\ metrics = MetricsAfter(LifeNames, reg, lifecycle)
       /\ lookupLog = {}
       /\ callerHolds = NoHeld
       /\ delayCancelled = {}
       /\ app = NoApp

StopNext ==
    \/ Shutdown
    \/ StopLaunch
    \/ \E c \in DOMAIN stopState : StopReturn(c)
    \/ \E c \in DOMAIN stopState : StopPanic(c)
    \/ StopBatchDone
    \/ StopAllReturn

\* The goroutine running StopAll keeps being scheduled, and every Stop call
\* that was made returns or panics.
StopFairness ==
    /\ WF_vars(StopLaunch)
    /\ WF_vars(StopBatchDone)
    /\ WF_vars(StopAllReturn)
    /\ \A c \in LifeNames : WF_vars(StopReturn(c) \/ StopPanic(c))

SpecStop == StopInit /\ [][StopNext]_vars /\ StopFairness

\* C13: every call of StopAll returns, provided each Stop call it makes
\* returns or panics: no batch barrier waits forever, whatever the number of
\* components and whichever Stop calls panic.
C13_StopAllReturns == (stopPc = "loop") ~> (stopPc = "idle")

C13_Witness ==
    /\ stopPc = "idle"
    /\ shutdownCalls >= 1
    /\ Len(lmOrder) = 6
    /\ Cardinality(stopPanics) >= 2
    /\ \E c \in stopPanics : BatchOf(c) = 1


\* C14: StartAll has not returned while a Start call it launched is still in
\* progress: when it has returned, every component of the order with
\* Start/Stop has had its Start return or panic, and when New has returned
\* successfully every one of them has had its Start return.
C14_StartJoinBarrier ==
    /\ StartAllReturned =>
          \A c \in SeqToSet(lmOrder) \cap lifecycle :
             startState[c] \in {"returned", "panicked"}
    /\ pc = "running" =>
          \A c \in SeqToSet(lmOrder) \cap lifecycle : startState[c] = "returned"

C14_Witness ==
    /\ pc = "cleanup"
    /\ Cardinality({ c \in lifecycle : startState[c] = "returned" }) >= 4
    /\ Cardinality({ c \in lifecycle : startState[c] = "panicked" }) = 1


\* C16 (as claimed): when New has returned the error of a failed start phase,
\* Stop has been invoked exactly once on each component whose Start returned
\* and not at all on any other, in particular on none whose Start panicked.
C16_StopOnlyStarted ==
    (pc = "failed" /\ err.at = "start") =>
       \A c \in DOMAIN stopCalls :
          stopCalls[c] = IF startState[c] = "returned" THEN 1 ELSE 0


-----------------------------------------------------------------------------
(* Background and scheduled components                                      *)

\* Components of the specification with background and scheduled tasks.
NumTask == 2

\* Most Execute calls on one scheduled component.
MaxExecs == 2

\* Most components with Run and most with Execute.
MaxBackground == 1

MaxScheduled == 1

TaskNames == { NamePool[i] : i \in 1..NumTask }

\* The caller cancels the context it handed to New.
CancelCtx ==
    /\ ~ctxDone
    /\ ctxDone' = TRUE
    /\ delayCancelled' = { c \in DOMAIN schedPc : schedPc[c] = "delay" }
    /\ UNCHANGED app
    /\ UNCHANGED << pc, bootVars, err, initVars, startVars, stopVars,
                    shutdownCalls, background, scheduled, runOnStartup,
                    tickBuffered,
                    hasDelay, runState, schedPc, execCalls >>
    /\ UNCHANGED phaseVars
    /\ UNCHANGED << regVars, varVars >>
    /\ UNCHANGED components
    /\ UNCHANGED << metricsEnabled, metrics, lookupLog, callerHolds >>

\* The goroutine of startBackgroundComponent calls bgComponent.Run(ctx).
RunBegin(c) ==
    /\ runState[c] = "launched"
    /\ runState' = [runState EXCEPT ![c] = "running"]
    /\ UNCHANGED << pc, bootVars, err, initVars, startVars, stopVars,
                    shutdownCalls, background, scheduled, runOnStartup,
                    tickBuffered,
                    hasDelay, ctxDone, schedPc, execCalls >>
    /\ UNCHANGED phaseVars
    /\ UNCHANGED << regVars, varVars >>
    /\ UNCHANGED components
    /\ UNCHANGED auxVars

\* Run returns, when the component chooses to, and its goroutine ends.
RunReturn(c) ==
    /\ runState[c] = "running"
    /\ runState' = [runState EXCEPT ![c] = "returned"]
    /\ UNCHANGED << pc, bootVars, err, initVars, startVars, stopVars,
                    shutdownCalls, background, scheduled, runOnStartup,
                    tickBuffered,
                    hasDelay, ctxDone, schedPc, execCalls >>
    /\ UNCHANGED phaseVars
    /\ UNCHANGED << regVars, varVars >>
    /\ UNCHANGED components
    /\ UNCHANGED auxVars

\* Where the scheduler goroutine stands after the RunOnStartup step: in the
\* select on the initial delay when InitialDelay > 0, else in the ticker loop.
AfterStartup(c) == IF c \in hasDelay THEN "delay" ELSE "wait"

\* The scheduler goroutine begins: Execute at once if RunOnStartup.
SchedBegin(c) ==
    /\ schedPc[c] = "launched"
    /\ IF c \in runOnStartup
       THEN /\ schedPc' = [schedPc EXCEPT ![c] = "exec"]
            /\ execCalls' = Bump(execCalls, c)
       ELSE /\ schedPc' = [schedPc EXCEPT ![c] = AfterStartup(c)]
            /\ UNCHANGED execCalls
    /\ UNCHANGED << pc, bootVars, err, initVars, startVars, stopVars,
                    shutdownCalls, background, scheduled, runOnStartup,
                    tickBuffered,
                    hasDelay, ctxDone, runState >>
    /\ UNCHANGED phaseVars
    /\ UNCHANGED << regVars, varVars >>
    /\ UNCHANGED components
    /\ UNCHANGED auxVars

\* schedComponent.Execute(ctx) returns to the scheduler goroutine: to the
\* delay step after the Execute on startup, to the ticker loop otherwise.
ExecReturn(c) ==
    /\ schedPc[c] \in {"exec", "tickExec"}
    /\ schedPc' = [schedPc EXCEPT ![c] =
                      IF schedPc[c] = "exec" THEN AfterStartup(c) ELSE "wait"]
    /\ UNCHANGED << pc, bootVars, err, initVars, startVars, stopVars,
                    shutdownCalls, background, scheduled, runOnStartup,
                    tickBuffered,
                    hasDelay, ctxDone, runState, execCalls >>
    /\ UNCHANGED phaseVars
    /\ UNCHANGED << regVars, varVars >>
    /\ UNCHANGED components
    /\ UNCHANGED auxVars

\* select on the initial delay: time.After fires.
DelayElapsed(c) ==
    /\ schedPc[c] = "delay"
    /\ schedPc' = [schedPc EXCEPT ![c] = "wait"]
    /\ UNCHANGED << pc, bootVars, err, initVars, startVars, stopVars,
                    shutdownCalls, background, scheduled, runOnStartup,
                    tickBuffered,
                    hasDelay, ctxDone, runState, execCalls >>
    /\ UNCHANGED phaseVars
    /\ UNCHANGED << regVars, varVars >>
    /\ UNCHANGED components
    /\ UNCHANGED auxVars

\* Variant of the scheduler goroutine whose ticker loop has no ctx.Done()
\* case: cancellation is seen during the initial delay only.
SchedCancelledInDelayOnly(c) ==
    /\ schedPc[c] = "delay"
    /\ ctxDone
    /\ schedPc' = [schedPc EXCEPT ![c] = "exited"]
    /\ tickBuffered' = tickBuffered \ {c}
    /\ UNCHANGED << pc, bootVars, err, initVars, startVars, stopVars,
                    shutdownCalls, background, scheduled, runOnStartup,
                    hasDelay, ctxDone, runState, execCalls >>
    /\ UNCHANGED phaseVars
    /\ UNCHANGED << regVars, varVars >>
    /\ UNCHANGED components
    /\ UNCHANGED auxVars

\* select, on the initial delay or in the ticker loop: ctx.Done() is taken
\* and the scheduler goroutine returns.
SchedCancelled(c) ==
    /\ schedPc[c] \in {"delay", "wait"}
    /\ ctxDone
    /\ schedPc' = [schedPc EXCEPT ![c] = "exited"]
    /\ tickBuffered' = tickBuffered \ {c}
    /\ UNCHANGED << pc, bootVars, err, initVars, startVars, stopVars,
                    shutdownCalls, background, scheduled, runOnStartup,
                    hasDelay, ctxDone, runState, execCalls >>
    /\ UNCHANGED phaseVars
    /\ UNCHANGED << regVars, varVars >>
    /\ UNCHANGED components
    /\ UNCHANGED auxVars

\* The interval of the ticker elapses: the runtime sends on ticker.C, whose
\* buffer holds one tick; a tick that finds the buffer full is dropped.  The
\* ticker exists from the entry of the loop until the goroutine returns.
TickerFires(c) ==
    /\ schedPc[c] \in {"wait", "tickExec"}
    /\ c \notin tickBuffered
    /\ tickBuffered' = tickBuffered \cup {c}
    /\ UNCHANGED << pc, bootVars, err, initVars, startVars, stopVars,
                    shutdownCalls, background, scheduled, runOnStartup,
                    hasDelay, ctxDone, runState, schedPc, execCalls >>
    /\ UNCHANGED phaseVars
    /\ UNCHANGED << regVars, varVars >>
    /\ UNCHANGED components
    /\ UNCHANGED auxVars

\* select in the ticker loop: ticker.C is taken and Execute is called in the
\* scheduler goroutine itself.  Go picks among the ready cases of a select at
\* random, so a tick that is ready may be taken although ctx.Done() is ready
\* as well.
Tick(c) ==
    /\ schedPc[c] = "wait"
    /\ c \in tickBuffered
    /\ execCalls[c] < MaxExecs
    /\ schedPc' = [schedPc EXCEPT ![c] = "tickExec"]
    /\ tickBuffered' = tickBuffered \ {c}
    /\ execCalls' = Bump(execCalls, c)
    /\ UNCHANGED << pc, bootVars, err, initVars, startVars, stopVars,
                    shutdownCalls, background, scheduled, runOnStartup,
                    hasDelay, ctxDone, runState >>
    /\ UNCHANGED phaseVars
    /\ UNCHANGED << regVars, varVars >>
    /\ UNCHANGED components
    /\ UNCHANGED auxVars

\* New at the call of StartAll, after InitializeAll initialized NumTask
\* components that look nothing up; each may have Start/Stop, and one that
\* has may also have Run, GetSchedule and Execute with any Schedule, or both.
TaskInit ==
    /\ pc = "start"
    /\ registry = TaskNames
    /\ prog = [ n \in TaskNames |-> {} ]
    /\ lifecycle \in SUBSET TaskNames
    /\ discovered = TaskNames
    /\ dependencies = [ n \in TaskNames |-> {} ]
    /\ trackedInits = [ n \in TaskNames |-> 1 ]
    /\ realInits = [ n \in TaskNames |-> 1 ]
    /\ selfLookups = {}
    /\ missingLookups = {}
    /\ err = NoError
    /\ initialized = TaskNames
    /\ initOrder = SubSeq(NamePool, 1, NumTask)
    /\ stack = << >>
    /\ lmOrder = SubSeq(NamePool, 1, NumTask)
    /\ startIdx = 1
    /\ startState = [ n \in TaskNames |-> "idle" ]
    /\ startCalls = Zero(TaskNames)
    /\ errChan = << >>
    /\ errChanClosed = FALSE
    /\ startupErr = Zero(TaskNames)
    /\ stopPc = "idle"
    /\ stopBatch = 0
    /\ stopIdx = 0
    /\ stopState = [ n \in TaskNames |-> "idle" ]
    /\ stopCalls = Zero(TaskNames)
    /\ stopLog = << >>
    /\ stopPanics = {}
    /\ shutdownCalls = 0
    /\ background \in { S \in SUBSET lifecycle : Cardinality(S) <= MaxBackground }
    /\ scheduled \in { S \in SUBSET lifecycle : Cardinality(S) <= MaxScheduled }
    /\ runOnStartup \in SUBSET scheduled
    /\ hasDelay \in SUBSET scheduled
    /\ ctxDone = FALSE
    /\ runState = [ n \in TaskNames |-> "none" ]
    /\ schedPc = [ n \in TaskNames |-> "none" ]
    /\ execCalls = Zero(TaskNames)
    /\ tickBuffered = {}
    /\ NoPhaseItems
    /\ components = ComponentsOf(registry, TaskNames)
    /\ NoRegistryCalls
    /\ NoVariables
    /\ DefaultMetrics
    /\ metrics = MetricsAfter(TaskNames, TaskNames, {})
    /\ lookupLog = {}
    /\ callerHolds = NoHeld
    /\ delayCancelled = {}
    /\ app = NoApp

TaskNext ==
    \/ LifeNext
    \/ CancelCtx
    \/ \E c \in DOMAIN runState : RunBegin(c)
    \/ \E c \in DOMAIN runState : RunReturn(c)
    \/ \E c \in DOMAIN schedPc : SchedBegin(c)
    \/ \E c \in DOMAIN schedPc : ExecReturn(c)
    \/ \E c \in DOMAIN schedPc : DelayElapsed(c)
    \/ \E c \in DOMAIN schedPc : SchedCancelled(c)
    \/ \E c \in DOMAIN schedPc : TickerFires(c)
    \/ \E c \in DOMAIN schedPc : Tick(c)

SpecTasks == TaskInit /\ [][TaskNext]_vars

\* New has returned the error of a failed start phase.
StartFailureReturned == pc = "failed" /\ err.at = "start"

\* C15 (as claimed): once New has returned the error of a failed start phase,
\* and the caller has not cancelled the context, no Run is in progress or
\* about to begin, no Execute is in progress, and no scheduler goroutine is
\* left that could call Execute.
C15_NothingLeftRunning ==
    (StartFailureReturned /\ ~ctxDone) =>
       \A c \in DOMAIN runState :
          /\ runState[c] \in {"none", "returned"}
          /\ schedPc[c] \in {"none", "exited"}


-----------------------------------------------------------------------------
(* New with factories, variable loaders and starters                        *)

\* Most factories, most variable loaders and most starters of an application.
MaxPhaseItems == 1

\* Most lookups one Init makes in an application with phase items.
MaxPhaseLookups == 1

\* What a factory or a starter registers: nothing, or the component "b".
PhaseRegs == {"none", "b"}

FactoryItems ==
    [ reg : PhaseRegs, fails : BOOLEAN, adds : {"none"}, late : {FALSE} ]

LoaderItems == [ fails : BOOLEAN, adds : {"none"}, late : {FALSE} ]

\* Starters that are no CompositeStarter.
StarterItems == [ cond : {"none", "true", "false"}, reg : PhaseRegs,
                  fails : BOOLEAN, members : {<< >>}, adds : {"none"},
                  late : {FALSE} ]

SeqsUpTo(S, n) == UNION { [ 1..k -> S ] : k \in 0..n }

PhasePrograms ==
    { p \in SUBSET NameOps :
        Cardinality(p) <= MaxPhaseLookups /\ NamesOf(p) \subseteq {"a", "b"} }

\* The container as New has just built it, for an application with any
\* factories, loaders and starters, the block having registered them.
PhaseInit ==
    /\ BootInit(PhasePrograms)
    /\ DefaultMetrics
    /\ factories \in SeqsUpTo(FactoryItems, MaxPhaseItems)
    /\ loaders \in SeqsUpTo(LoaderItems, MaxPhaseItems)
    /\ starters \in SeqsUpTo(StarterItems, MaxPhaseItems)
    /\ phaseIdx = 1
    /\ phaseLog = << >>

PhaseNext ==
    \/ BootNext
    \/ FactoryStep
    \/ LoaderStep
    \/ StarterStep
    \/ LifeNext

SpecPhases == PhaseInit /\ [][PhaseNext]_vars


\* The phases of New in their order.
PhaseRank(at) ==
    CASE at = "factory"  -> 1
      [] at = "loader"   -> 2
      [] at = "starter"  -> 3
      [] at = "discover" -> 4
      [] at = "validate" -> 5
      [] at = "init"     -> 6
      [] at = "start"    -> 7
      [] OTHER           -> 8

ErrorOf(phase) ==
    CASE phase = "factory" -> "FACTORY_FAILED"
      [] phase = "loader"  -> "LOADER_FAILED"
      [] phase = "starter" -> "STARTER_FAILED"

\* C17: a Create, Load or starter Start that returned an error is the last
\* call New made of those and New has returned its error; and when New has
\* returned the error of a phase before the start phase, no step of a later
\* phase has run: no call of a later list, no Init on the tracking context
\* before discovery, no real Init before initialization, no Start and no Stop
\* of any component, and no shutdown function that could be called.
C17_FailureIsFatal ==
    /\ \A i \in 1..Len(phaseLog) :
          (phaseLog[i].call # "ShouldStart" /\ ~phaseLog[i].ok) =>
             /\ i = Len(phaseLog)
             /\ pc = "failed"
             /\ err.at = phaseLog[i].phase
             /\ err.code = ErrorOf(phaseLog[i].phase)
    /\ (pc = "failed" /\ PhaseRank(err.at) < 7) =>
          /\ \A i \in 1..Len(phaseLog) :
                LET p == phaseLog[i].phase IN PhaseRank(p) <= PhaseRank(err.at)
          /\ PhaseRank(err.at) < 4 =>
                \A c \in DOMAIN trackedInits : trackedInits[c] = 0
          /\ PhaseRank(err.at) < 6 =>
                /\ \A c \in DOMAIN realInits : realInits[c] = 0
                /\ initOrder = << >>
          /\ \A c \in DOMAIN startCalls : startCalls[c] = 0 /\ stopCalls[c] = 0
          /\ lmOrder = << >>
          /\ stopPc = "idle"
    /\ pc = "failed" => shutdownCalls = 0 /\ ~ENABLED Shutdown

C17_Witness ==
    /\ pc = "failed"
    /\ err.at = "starter"
    /\ Len(phaseLog) = 4
    /\ phaseLog[1].ok /\ phaseLog[2].ok
    /\ "b" \in registry /\ "a" \in registry


-----------------------------------------------------------------------------
(* defaultComponentRegistry under concurrent calls                          *)

\* Most calls the goroutines make on the registry.
MaxRegCalls == 3

RegOps == {"Register", "Get", "Has", "GetAll", "GetNames"}

\* Everything but the component registry.
nonRegistryVars ==
    << pc, prog, discovered, dependencies, trackedInits, realInits,
       selfLookups, missingLookups, err, initVars, startVars, stopVars,
       shutdownCalls, taskVars, phaseVars, varVars, auxVars >>

NoVal == [ n \in RegNames |-> Absent ]

LogEntry(t, code, val) ==
    [op |-> thr[t].op, name |-> thr[t].name, inst |-> thr[t].inst,
     code |-> code, val |-> val]

\* A goroutine calls Register (with a new component of any name, the empty
\* name included), Get, Has, GetAll or GetNames.
RegCall(t) ==
    /\ thr[t].pc = "idle"
    /\ regCalls < MaxRegCalls
    /\ \E op \in RegOps, name \in RegNames \cup {""} :
         /\ op \in {"Get", "Has"} => name \in RegNames
         /\ op \in {"GetAll", "GetNames"} => name = ""
         /\ thr' = [thr EXCEPT ![t] = [pc |-> "lock", op |-> op, name |-> name,
                                       inst |-> regCalls + 1, seen |-> NoVal]]
    /\ regCalls' = regCalls + 1
    /\ UNCHANGED << registry, lifecycle, components, muWriter, muReaders,
                    regLog, nonRegistryVars >>

\* Variant of r.mu.Lock() that excludes nobody.
AcquireWriteShared(t) ==
    /\ thr[t].pc = "lock"
    /\ thr[t].op = "Register"
    /\ muWriter' = t
    /\ thr' = [thr EXCEPT ![t].pc = "check"]
    /\ UNCHANGED << registry, lifecycle, components, muReaders, regLog,
                    regCalls, nonRegistryVars >>

\* r.mu.Lock() of Register: granted when no goroutine holds the mutex.
AcquireWrite(t) ==
    /\ thr[t].pc = "lock"
    /\ thr[t].op = "Register"
    /\ muWriter = 0
    /\ muReaders = {}
    /\ muWriter' = t
    /\ thr' = [thr EXCEPT ![t].pc = "check"]
    /\ UNCHANGED << registry, lifecycle, components, muReaders, regLog,
                    regCalls, nonRegistryVars >>

\* r.mu.RLock() of the readers: granted when no goroutine holds Lock.
AcquireRead(t) ==
    /\ thr[t].pc = "lock"
    /\ thr[t].op # "Register"
    /\ muWriter = 0
    /\ muReaders' = muReaders \cup {t}
    /\ thr' = [thr EXCEPT ![t].pc =
                  IF thr[t].op \in {"Get", "Has"} THEN "read" ELSE "copy"]
    /\ UNCHANGED << registry, lifecycle, components, muWriter, regLog,
                    regCalls, nonRegistryVars >>

\* Variant of Register without the `if _, exists` test.
RegisterCheckNoExists(t) ==
    /\ thr[t].pc = "check"
    /\ IF thr[t].name = ""
       THEN /\ regLog' = Append(regLog, LogEntry(t, "EMPTY_NAME", NoVal))
            /\ thr' = [thr EXCEPT ![t].pc = "unlock"]
       ELSE /\ thr' = [thr EXCEPT ![t].pc = "write"]
            /\ UNCHANGED regLog
    /\ UNCHANGED << registry, lifecycle, components, muWriter, muReaders,
                    regCalls, nonRegistryVars >>

\* Register under the lock: the empty name and a name the map already has
\* are refused.
RegisterCheck(t) ==
    /\ thr[t].pc = "check"
    /\ IF thr[t].name = ""
       THEN /\ regLog' = Append(regLog, LogEntry(t, "EMPTY_NAME", NoVal))
            /\ thr' = [thr EXCEPT ![t].pc = "unlock"]
       ELSE IF components[thr[t].name] # Absent
       THEN /\ regLog' = Append(regLog,
                                LogEntry(t, "COMPONENT_ALREADY_REGISTERED", NoVal))
            /\ thr' = [thr EXCEPT ![t].pc = "unlock"]
       ELSE /\ thr' = [thr EXCEPT ![t].pc = "write"]
            /\ UNCHANGED regLog
    /\ UNCHANGED << registry, lifecycle, components, muWriter, muReaders,
                    regCalls, nonRegistryVars >>

\* r.components[name] = component; return nil.
RegisterWrite(t) ==
    /\ thr[t].pc = "write"
    /\ components' = [components EXCEPT ![thr[t].name] = thr[t].inst]
    /\ registry' = registry \cup {thr[t].name}
    /\ lifecycle' = IF CompType[thr[t].name] = "Service"
                    THEN lifecycle \cup {thr[t].name} ELSE lifecycle
    /\ regLog' = Append(regLog, LogEntry(t, "OK", NoVal))
    /\ thr' = [thr EXCEPT ![t].pc = "unlock"]
    /\ UNCHANGED << muWriter, muReaders, regCalls, nonRegistryVars >>

\* Get and Has under the read lock.
RegRead(t) ==
    /\ thr[t].pc = "read"
    /\ LET name == thr[t].name
           held == components[name] # Absent
       IN regLog' = Append(regLog,
             IF thr[t].op = "Get"
             THEN LogEntry(t, IF held THEN "OK" ELSE "COMPONENT_NOT_FOUND",
                           [NoVal EXCEPT ![name] = components[name]])
             ELSE LogEntry(t, IF held THEN "TRUE" ELSE "FALSE", NoVal))
    /\ thr' = [thr EXCEPT ![t].pc = "unlock"]
    /\ UNCHANGED << registry, lifecycle, components, muWriter, muReaders,
                    regCalls, nonRegistryVars >>

\* The names the loop of GetAll or GetNames has still to visit.
Unseen(t) ==
    { n \in RegNames : components[n] # Absent /\ thr[t].seen[n] = Absent }

\* One iteration of `for k, v := range r.components` in GetAll or GetNames.
CopyStep(t) ==
    /\ thr[t].pc = "copy"
    /\ \E n \in Unseen(t) :
         thr' = [thr EXCEPT ![t].seen[n] = components[n]]
    /\ UNCHANGED << registry, lifecycle, components, muWriter, muReaders,
                    regLog, regCalls, nonRegistryVars >>

\* The loop is over: GetAll returns the copy, GetNames the names copied.
CopyDone(t) ==
    /\ thr[t].pc = "copy"
    /\ Unseen(t) = {}
    /\ regLog' = Append(regLog,
          LogEntry(t, "OK",
                   IF thr[t].op = "GetAll" THEN thr[t].seen
                   ELSE [ n \in RegNames |->
                            IF thr[t].seen[n] # Absent THEN 1 ELSE Absent ]))
    /\ thr' = [thr EXCEPT ![t].pc = "unlock"]
    /\ UNCHANGED << registry, lifecycle, components, muWriter, muReaders,
                    regCalls, nonRegistryVars >>

\* The deferred Unlock or RUnlock; the call returns.
Release(t) ==
    /\ thr[t].pc = "unlock"
    /\ IF thr[t].op = "Register"
       THEN muWriter' = 0 /\ UNCHANGED muReaders
       ELSE muReaders' = muReaders \ {t} /\ UNCHANGED muWriter
    /\ thr' = [thr EXCEPT ![t] = IdleThread]
    /\ UNCHANGED << registry, lifecycle, components, regLog, regCalls,
                    nonRegistryVars >>

\* A new container whose registry goroutines are about to use.
RegInit == BootInit({{}}) /\ NoPhaseItems /\ DefaultMetrics

RegNext ==
    \/ \E t \in Threads : RegCall(t)
    \/ \E t \in Threads : AcquireWrite(t)
    \/ \E t \in Threads : AcquireRead(t)
    \/ \E t \in Threads : RegisterCheck(t)
    \/ \E t \in Threads : RegisterWrite(t)
    \/ \E t \in Threads : RegRead(t)
    \/ \E t \in Threads : CopyStep(t)
    \/ \E t \in Threads : CopyDone(t)
    \/ \E t \in Threads : Release(t)

SpecRegistry == RegInit /\ [][RegNext]_vars


\* The calls of regLog[1..k] that are Register calls of `name`, by position.
RegistersOf(name, k) ==
    { i \in 1..k : regLog[i].op = "Register" /\ regLog[i].name = name }

Least(S) == CHOOSE i \in S : \A j \in S : i <= j

\* The instance the first Register of `name` among regLog[1..k] registered,
\* Absent when there is none.
FirstRegistered(name, k) ==
    IF RegistersOf(name, k) = {} THEN Absent
    ELSE regLog[Least(RegistersOf(name, k))].inst

\* C18: the first Register of a name succeeds and every later Register of
\* that name fails with ComponentAlreadyRegistered; the registry holds for
\* each name the component of its first registration, whatever was
\* registered afterwards; and Get returns that component.
C18_FirstRegistrationStays ==
    /\ \A i \in 1..Len(regLog) :
          LET e == regLog[i] IN
          /\ (e.op = "Register" /\ e.name # "") =>
                e.code = IF FirstRegistered(e.name, i - 1) = Absent THEN "OK"
                         ELSE "COMPONENT_ALREADY_REGISTERED"
          /\ e.op = "Get" =>
                /\ e.val[e.name] = FirstRegistered(e.name, i - 1)
                /\ e.code = IF e.val[e.name] = Absent
                            THEN "COMPONENT_NOT_FOUND" ELSE "OK"
    /\ \A n \in RegNames :
          (\A t \in Threads : ~(thr[t].pc = "write" /\ thr[t].name = n)) =>
             components[n] = FirstRegistered(n, Len(regLog))

C18_Witness ==
    /\ Len(regLog) = 3
    /\ regLog[1].op = "Register" /\ regLog[1].code = "OK"
    /\ regLog[2].op = "Register"
    /\ regLog[2].code = "COMPONENT_ALREADY_REGISTERED"
    /\ regLog[3].op = "Get" /\ regLog[3].val[regLog[3].name] = regLog[1].inst

\* What a call returns, and the map it leaves, when it runs alone on map A.
Expected(e, A) ==
    LET held == e.name \in RegNames /\ A[e.name] # Absent IN
    CASE e.op = "Register" ->
            IF e.name = "" THEN [code |-> "EMPTY_NAME", val |-> NoVal, next |-> A]
            ELSE IF held
            THEN [code |-> "COMPONENT_ALREADY_REGISTERED", val |-> NoVal,
                  next |-> A]
            ELSE [code |-> "OK", val |-> NoVal,
                  next |-> [A EXCEPT ![e.name] = e.inst]]
      [] e.op = "Get" ->
            [code |-> IF held THEN "OK" ELSE "COMPONENT_NOT_FOUND",
             val |-> [NoVal EXCEPT ![e.name] = A[e.name]], next |-> A]
      [] e.op = "Has" ->
            [code |-> IF held THEN "TRUE" ELSE "FALSE", val |-> NoVal,
             next |-> A]
      [] e.op = "GetAll" -> [code |-> "OK", val |-> A, next |-> A]
      [] e.op = "GetNames" ->
            [code |-> "OK",
             val |-> [ n \in RegNames |-> IF A[n] # Absent THEN 1 ELSE Absent ],
             next |-> A]

RECURSIVE Replays(_, _)
\* The calls of log, run one at a time in this order from map A, return
\* what the log says they returned.
Replays(log, A) ==
    IF log = << >> THEN TRUE
    ELSE LET x == Expected(Head(log), A) IN
         /\ Head(log).code = x.code
         /\ Head(log).val = x.val
         /\ Replays(Tail(log), x.next)

InCritical(t) == thr[t].pc \in {"check", "write", "read", "copy", "unlock"}

\* C20: the calls return what they would return run one at a time in the
\* order they took effect, each taking effect between its call and its
\* return; at most one Register of a name succeeds; a goroutine inside
\* Register shares the map with no other goroutine; and the copy a reader
\* has made so far agrees with the map (no half-made update is seen).
C20_Linearizable ==
    /\ Replays(regLog, NoVal)
    /\ \A n \in RegNames :
          Cardinality({ i \in RegistersOf(n, Len(regLog)) :
                          regLog[i].code = "OK" }) <= 1
    /\ \A t, u \in Threads :
          (t # u /\ InCritical(t) /\ thr[t].op = "Register") => ~InCritical(u)
    /\ \A t \in Threads :
          thr[t].pc = "copy" =>
             \A n \in RegNames :
                thr[t].seen[n] \in {Absent, components[n]}

C20_Witness ==
    /\ thr[1].op = "Register" /\ thr[1].pc = "unlock"
    /\ thr[2].op = "Register" /\ thr[2].pc = "lock"
    /\ thr[1].name = thr[2].name /\ thr[1].name \in RegNames
    /\ thr[2].inst < thr[1].inst
    /\ Len(regLog) = 2
    /\ regLog[1].op = "GetAll"


-----------------------------------------------------------------------------
(* defaultVariableRegistry                                                  *)

\* Most registrations of variables.
MaxVarRegs == 3

Str(s) == [kind |-> "string", n |-> 0, s |-> s]

\* A value with a String() method that returns s.
Stringer(s) == [kind |-> "stringer", n |-> 0, s |-> s]

IntVal(n) == [kind |-> "int", n |-> n, s |-> ""]

\* Values the application registers: strings, integers, a fmt.Stringer, nil.
Values ==
    { Str("dev"), Str(""), IntVal(8080), IntVal(0), IntVal(7), Stringer("5s"), Nil }

Digit(d) ==
    CASE d = 0 -> "0" [] d = 1 -> "1" [] d = 2 -> "2" [] d = 3 -> "3"
      [] d = 4 -> "4" [] d = 5 -> "5" [] d = 6 -> "6" [] d = 7 -> "7"
      [] d = 8 -> "8" [] d = 9 -> "9"

RECURSIVE Decimal(_)
\* fmt.Sprintf("%v", n) of a non-negative int.
Decimal(n) == IF n < 10 THEN Digit(n) ELSE Decimal(n \div 10) \o Digit(n % 10)

\* GetString's conversion: "" for nil, the string itself, String() of a
\* Stringer, fmt.Sprintf("%v", v) otherwise.
Render(v) ==
    CASE v.kind = "nil"      -> ""
      [] v.kind = "string"   -> v.s
      [] v.kind = "stringer" -> v.s
      [] OTHER               -> Decimal(v.n)

\* Everything but the variable registry.
nonVariableVars ==
    << pc, bootVars, err, initVars, startVars, stopVars, shutdownCalls,
       taskVars, phaseVars, components, regVars, auxVars >>

\* Variant of Register that keeps the value a name already has.
VarRegisterKeepsFirst(name, value) ==
    /\ Len(varLog) < MaxVarRegs
    /\ variables' = IF variables[name] = Nil
                    THEN [variables EXCEPT ![name] = value] ELSE variables
    /\ varLog' = Append(varLog, [name |-> name, value |-> value])
    /\ UNCHANGED << varRead, nonVariableVars >>

\* Register(name, value): r.variables[name] = value.
VarRegister(name, value) ==
    /\ Len(varLog) < MaxVarRegs
    /\ variables' = [variables EXCEPT ![name] = value]
    /\ varLog' = Append(varLog, [name |-> name, value |-> value])
    /\ UNCHANGED << varRead, nonVariableVars >>

\* Get(name): r.variables[name], nil for a name the map does not hold.
VarGet(name) ==
    /\ varRead' = [op |-> "Get", name |-> name, value |-> variables[name],
                   str |-> "", at |-> Len(varLog)]
    /\ UNCHANGED << variables, varLog, nonVariableVars >>

\* GetString(name).
VarGetString(name) ==
    /\ varRead' = [op |-> "GetString", name |-> name, value |-> Nil,
                   str |-> Render(variables[name]), at |-> Len(varLog)]
    /\ UNCHANGED << variables, varLog, nonVariableVars >>

VarNext ==
    \/ \E name \in VarNames, value \in Values : VarRegister(name, value)
    \/ \E name \in VarNames : VarGet(name)
    \/ \E name \in VarNames : VarGetString(name)

SpecVariables == RegInit /\ [][VarNext]_vars

\* The registrations of `name` among varLog[1..k], by position.
RegistrationsOf(name, k) == { i \in 1..k : varLog[i].name = name }

Greatest(S) == CHOOSE i \in S : \A j \in S : j <= i

\* The value most recently registered for `name` among varLog[1..k].
Latest(name, k) ==
    IF RegistrationsOf(name, k) = {} THEN Nil
    ELSE varLog[Greatest(RegistrationsOf(name, k))].value

\* The text each value reads as.
TextOf(v) ==
    CASE v = Str("dev")      -> "dev"
      [] v = Str("")         -> ""
      [] v = IntVal(8080)       -> "8080"
      [] v = IntVal(0)          -> "0"
      [] v = IntVal(7)          -> "7"
      [] v = Stringer("5s")  -> "5s"
      [] v = Nil             -> ""

\* C19: a registration is never refused; the map holds for each name the
\* value registered last; Get returned the value registered last before the
\* read and GetString its text; and a name never registered read as nil and
\* as the empty string.
C19_LastWriterWins ==
    /\ Len(varLog) < MaxVarRegs =>
          \A name \in VarNames, value \in Values :
             ENABLED VarRegister(name, value)
    /\ \A name \in VarNames : variables[name] = Latest(name, Len(varLog))
    /\ varRead.op = "Get" =>
          varRead.value = Latest(varRead.name, varRead.at)
    /\ varRead.op = "GetString" =>
          varRead.str = TextOf(Latest(varRead.name, varRead.at))
    /\ (varRead.op # "none" /\ RegistrationsOf(varRead.name, varRead.at) = {})
          => varRead.value = Nil /\ varRead.str = ""

C19_Witness ==
    /\ Len(varLog) = 3
    /\ varLog[1].name = varLog[3].name
    /\ varLog[1].value = Str("dev")
    /\ varLog[3].value = IntVal(8080)
    /\ varRead.op = "GetString"
    /\ varRead.name = varLog[1].name
    /\ varRead.at = 3
    /\ varRead.str = "8080"


-----------------------------------------------------------------------------
(* The accessors and what a caller does with their results                  *)

\* Most changes a caller makes to one result it holds.
MaxMutations == 1

\* An instance that is not a registered component.
Foreign == Absent - 1

Perms(S) ==
    { q \in [ 1..Cardinality(S) -> S ] : \A i, j \in DOMAIN q : i # j => q[i] # q[j] }

\* What GetAll returns: a new map with every entry of r.components.
GetAllResult == [ n \in DOMAIN components |-> components[n] ]

\* What GetNames may return: a new slice of the keys in map order.
GetNamesResults == Perms({ n \in DOMAIN components : components[n] # Absent })

\* What GetDependencies(name) returns: nil for a name without an entry, else
\* a new map with every key of the discovered set.
GetDependenciesResult(name) ==
    IF name \in discovered
    THEN [isNil |-> FALSE, keys |-> { d \in dependencies[name] : TRUE }]
    ELSE [isNil |-> TRUE, keys |-> {}]

\* What GetInitOrder returns: a new slice with the elements of i.initOrder.
GetInitOrderResult == [ k \in 1..Len(initOrder) |-> initOrder[k] ]

\* What GetMetrics returns: nil when metrics are disabled, else a new map
\* holding a pointer to a copy of every record.
GetMetricsResult ==
    IF metricsEnabled
    THEN [isNil |-> FALSE, recs |-> [ n \in DOMAIN metrics |-> metrics[n] ]]
    ELSE [isNil |-> TRUE, recs |-> [ n \in DOMAIN metrics |-> NoRecord ]]

Holds(src, name, val) ==
    callerHolds' = [src |-> src, name |-> name, alias |-> FALSE, muts |-> 0,
                    val |-> val]

\* Everything an accessor call and a change of its result leave alone.
nonAccessorVars ==
    << pc, registry, prog, lifecycle, discovered, trackedInits, realInits,
       selfLookups, missingLookups, err, initialized, stack, startIdx,
       startState, startCalls, errChan, errChanClosed, startupErr, stopVars,
       shutdownCalls, taskVars, phaseVars, regVars, varVars, metricsEnabled,
       lookupLog, delayCancelled, app >>

internals == << components, dependencies, initOrder, lmOrder, metrics >>

\* Variant of GetInitOrder that returns i.initOrder itself.
GetInitOrderNoCopy ==
    /\ callerHolds' = [src |-> "GetInitOrder", name |-> "none", alias |-> TRUE,
                       muts |-> 0, val |-> initOrder]
    /\ UNCHANGED << internals, nonAccessorVars >>

GetAllCall ==
    /\ Holds("GetAll", "none", GetAllResult)
    /\ UNCHANGED << internals, nonAccessorVars >>

GetNamesCall ==
    /\ \E names \in GetNamesResults : Holds("GetNames", "none", names)
    /\ UNCHANGED << internals, nonAccessorVars >>

GetDependenciesCall(name) ==
    /\ Holds("GetDependencies", name, GetDependenciesResult(name))
    /\ UNCHANGED << internals, nonAccessorVars >>

GetInitOrderCall ==
    /\ Holds("GetInitOrder", "none", GetInitOrderResult)
    /\ UNCHANGED << internals, nonAccessorVars >>

GetMetricsCall ==
    /\ Holds("GetMetrics", "none", GetMetricsResult)
    /\ UNCHANGED << internals, nonAccessorVars >>

\* The values a caller can turn the result it holds into: an entry of a map
\* deleted or replaced, a key added, an element of a slice overwritten, a
\* field of a metrics record written through its pointer.  A nil map cannot
\* be written to.
Mutations(h) ==
    CASE h.src = "GetAll" ->
            { [h.val EXCEPT ![n] = x] : n \in DOMAIN h.val, x \in {Absent, Foreign} }
      [] h.src \in {"GetNames", "GetInitOrder"} ->
            { [h.val EXCEPT ![k] = "zz"] : k \in DOMAIN h.val }
      [] h.src = "GetDependencies" ->
            IF h.val.isNil THEN {}
            ELSE { [h.val EXCEPT !.keys = @ \ {d}] : d \in h.val.keys }
                 \cup { [h.val EXCEPT !.keys = @ \cup {"zz"}] }
      [] h.src = "GetMetrics" ->
            IF h.val.isNil THEN {}
            ELSE { [h.val EXCEPT !.recs[n] = NoRecord] : n \in DOMAIN h.val.recs }
                 \cup { [h.val EXCEPT !.recs[n].InitDuration = ~@]
                        : n \in DOMAIN h.val.recs }
      [] OTHER -> {}

\* The caller changes the object it holds.  The object is the accessor's new
\* map or slice; were it the container's own, the container's would change.
MutateResult ==
    /\ callerHolds.muts < MaxMutations
    /\ \E v \in Mutations(callerHolds) :
         /\ v # callerHolds.val
         /\ callerHolds' = [callerHolds EXCEPT !.val = v, !.muts = @ + 1]
         /\ IF callerHolds.alias /\ callerHolds.src = "GetInitOrder"
            THEN initOrder' = v /\ UNCHANGED << components, dependencies,
                                                lmOrder, metrics >>
            ELSE UNCHANGED internals
    /\ UNCHANGED nonAccessorVars

\* The application of the accessor specification: a depends on nothing, b on
\* a, c on a and b.
AccDeps ==
    [ n \in Names |-> CASE n = "a" -> {} [] n = "b" -> {"a"} [] n = "c" -> {"a", "b"} ]

AccOrder == << "a", "b", "c" >>

\* New after InitializeAll has returned nil for that application, with
\* metrics enabled or not.
AccInit ==
    /\ pc = "init"
    /\ registry = Names
    /\ prog = [ n \in Names |-> { [kind |-> "name", arg |-> d] : d \in AccDeps[n] } ]
    /\ lifecycle = { n \in Names : CompType[n] = "Service" }
    /\ discovered = Names
    /\ dependencies = AccDeps
    /\ trackedInits = [ n \in Names |-> 1 ]
    /\ realInits = [ n \in Names |-> 1 ]
    /\ selfLookups = {}
    /\ missingLookups = {}
    /\ err = NoError
    /\ initialized = Names
    /\ initOrder = AccOrder
    /\ stack = << >>
    /\ lmOrder = << >>
    /\ startIdx = 1
    /\ startState = [ n \in Names |-> "idle" ]
    /\ startCalls = Zero(Names)
    /\ errChan = << >>
    /\ errChanClosed = FALSE
    /\ startupErr = Zero(Names)
    /\ stopPc = "idle"
    /\ stopBatch = 0
    /\ stopIdx = 0
    /\ stopState = [ n \in Names |-> "idle" ]
    /\ stopCalls = Zero(Names)
    /\ stopLog = << >>
    /\ stopPanics = {}
    /\ shutdownCalls = 0
    /\ NoTasks(Names)
    /\ components = ComponentsOf(registry, Names)
    /\ NoRegistryCalls
    /\ NoVariables
    /\ NoPhaseItems
    /\ metricsEnabled \in BOOLEAN
    /\ metrics = IF metricsEnabled
                 THEN [ n \in Names |->
                          [exists |-> TRUE, DependencyCount |-> Cardinality(AccDeps[n]),
                           InitDuration |-> TRUE, StartDuration |-> FALSE,
                           StopDuration |-> FALSE] ]
                 ELSE MetricsAfter(Names, {}, {})
    /\ lookupLog = {}
    /\ callerHolds = NoHeld
    /\ delayCancelled = {}
    /\ app = NoApp

AccNext ==
    \/ InitDone
    \/ LifeNext
    \/ GetAllCall
    \/ GetNamesCall
    \/ \E name \in Names \cup {"zz"} : GetDependenciesCall(name)
    \/ GetInitOrderCall
    \/ GetMetricsCall
    \/ MutateResult

SpecAccessors == AccInit /\ [][AccNext]_vars

\* What every accessor would return in the current state.
AccessorResults ==
    << GetAllResult, GetNamesResults,
       [ n \in Names \cup {"zz"} |-> GetDependenciesResult(n) ],
       GetInitOrderResult, GetMetricsResult >>

SpecLookups == TypedInit /\ [][BootNext]_vars

\* The by-type lookups made so far.
TypeLookups == { e \in lookupLog : e.kind = "type" }

\* The components the policy allows for requested type t: the exact matches
\* when there is one, else the assignable ones.
Allowed(t) ==
    IF ExactMatches(t, registry) # {} THEN ExactMatches(t, registry)
    ELSE AssignableMatches(t, registry)

\* The lookup was handed a component the policy allows, or
\* ComponentTypeNotFound when it allows none.
FollowsPolicy(e) ==
    IF Allowed(e.arg) = {}
    THEN e.code = "COMPONENT_TYPE_NOT_FOUND" /\ e.comp = NoMatch
    ELSE e.code = "OK" /\ e.comp \in Allowed(e.arg)

\* C22 (as claimed): every by-type lookup, on the tracking context and on the
\* real container alike, is handed an exact match whenever one is registered,
\* an assignable component only when there is no exact match, and
\* ComponentTypeNotFound only when nothing matches.
C22_SamePolicy == \A e \in TypeLookups : FollowsPolicy(e)

\* C22 (amended): the real container follows that policy; the tracking
\* context follows it except when the component it picks is the requesting
\* component itself: then it hands out CircularDependency and no component,
\* although another match may be registered.  A component the tracking
\* context handed out is a discovered dependency of the requester.
C22_PolicyButSelf ==
    \A e \in TypeLookups :
       /\ e.ctx = "real" => FollowsPolicy(e)
       /\ e.ctx = "tracking" =>
             /\ \/ FollowsPolicy(e)
                \/ /\ e.code = "CIRCULAR_DEPENDENCY"
                   /\ e.comp = NoMatch
                   /\ e.by \in Allowed(e.arg)
             /\ e.code = "OK" => e.comp # e.by /\ e.comp \in dependencies[e.by]

C22_Witness ==
    /\ pc = "start"
    /\ \E e \in TypeLookups :
          /\ e.ctx = "tracking" /\ e.code = "CIRCULAR_DEPENDENCY"
          /\ ExactMatches(e.arg, registry) \ {e.by} # {}
    /\ \E e \in TypeLookups : e.ctx = "real" /\ e.comp = e.by
    /\ \E e \in TypeLookups :
          e.arg = "Component" /\ e.code = "OK" /\ e.ctx = "tracking"
    /\ \E e \in TypeLookups : e.code = "COMPONENT_TYPE_NOT_FOUND"


\* C23 (as claimed): once the context has been cancelled, no Execute call
\* begins on any scheduled component.
C23_NoExecuteAfterCancel == [][ctxDone => execCalls' = execCalls]_vars

\* C24 (as claimed): a tick that elapses while an Execute of the component is
\* still running gets its own Execute at once, beside the running one: it is
\* neither queued until that Execute returns nor skipped.
C24_TicksOverlap ==
    \A c \in DOMAIN schedPc :
       (schedPc[c] = "tickExec" /\ c \in tickBuffered /\ execCalls[c] < MaxExecs)
          => ENABLED Tick(c)


\* C25: with metrics enabled, every component whose real Init has returned
\* has a record with its init duration written, and keeps it; a record has a
\* start duration exactly when the component's Start has returned and a stop
\* duration only when its Stop has been invoked, so a component without
\* Start/Stop never has either; no name that is not registered has a record.
C25_MetricsRecorded ==
    metricsEnabled =>
       \A c \in DOMAIN metrics :
          /\ c \in initialized =>
                metrics[c].exists /\ metrics[c].InitDuration
          /\ metrics[c].InitDuration => realInits[c] > 0
          /\ metrics[c].StartDuration <=>
                (c \in lifecycle /\ startState[c] = "returned")
          /\ metrics[c].StopDuration => (c \in lifecycle /\ stopCalls[c] > 0)
          /\ (stopState[c] = "done" /\ c \notin stopPanics)
                => metrics[c].StopDuration
          /\ c \notin lifecycle =>
                ~metrics[c].StartDuration /\ ~metrics[c].StopDuration
          /\ metrics[c].exists => c \in registry
          /\ ~metrics[c].exists => metrics[c] = NoRecord

C25_Witness ==
    /\ metricsEnabled
    /\ pc = "running"
    /\ stopPc = "idle"
    /\ shutdownCalls = 1
    /\ registry = Names
    /\ metrics["c"].InitDuration
    /\ ~metrics["c"].StartDuration /\ ~metrics["c"].StopDuration
    /\ metrics["a"].StartDuration /\ metrics["a"].StopDuration
    /\ metrics["b"].StartDuration /\ ~metrics["b"].StopDuration
    /\ metrics["b"].DependencyCount = 2


\* ---------------------------------------------------------------------------
\* Conditional starters, alone and inside a CompositeStarter.

MaxStarters == 2

MaxMembers == 2

\* The members of a CompositeStarter: starters, conditional or not.
MemberItems == [ cond : {"none", "true", "false"}, reg : PhaseRegs,
                 fails : BOOLEAN ]

\* A CompositeStarter is no ConditionalStarter: it has no ShouldStart.
CompositeItems ==
    [ cond : {"none"}, reg : {"none"}, fails : {FALSE},
      members : SeqsUpTo(MemberItems, MaxMembers) \ {<< >>},
      adds : {"none"}, late : {FALSE} ]

\* The container of an application that added starters, composite ones among
\* them, and no factory and no loader.
StartersInit ==
    /\ BootInit({{}})
    /\ DefaultMetrics
    /\ factories = << >>
    /\ loaders = << >>
    /\ starters \in SeqsUpTo(StarterItems \cup CompositeItems, MaxStarters)
    /\ phaseIdx = 1
    /\ phaseLog = << >>

StartersNext ==
    \/ Register("b")
    \/ BlockReturn
    \/ FactoriesDone
    \/ LoadersDone
    \/ StarterStep
    \/ BeginDiscovery
    \/ \E c \in Names : DiscoverStep(c)
    \/ DiscoverDone
    \/ ValidateDependencies
    \/ InitTop
    \/ InitReal
    \/ InitDone

SpecStarters == StartersInit /\ [][StartersNext]_vars

\* The starter a call was made on: one of c.starters or a member of one.
StarterOf(e) ==
    IF e.member = 0 THEN starters[e.idx]
    ELSE starters[e.idx].members[e.member]

StarterCalls ==
    { i \in 1..Len(phaseLog) : phaseLog[i].phase = "starter" }

\* C26: every Start of a conditional starter, one of the list or a member of
\* a composite starter, comes after a ShouldStart of that starter that
\* returned true; a starter whose ShouldStart returned false is never
\* started; and once the starters are through without an error, every starter
\* of the list that was not skipped has been started.
C26_ShouldStartConsulted ==
    /\ \A i \in StarterCalls :
          LET e == phaseLog[i]
          IN (e.call = "Start" /\ StarterOf(e).cond # "none")
             => \E j \in 1..(i - 1) :
                   phaseLog[j] = [phase |-> "starter", idx |-> e.idx,
                                  member |-> e.member, call |-> "ShouldStart",
                                  ok |-> TRUE]
    /\ \A i \in StarterCalls :
          (phaseLog[i].call = "Start") => StarterOf(phaseLog[i]).cond # "false"
    /\ (pc \notin {"block", "factories", "loaders", "starters"}
        /\ err.code # "STARTER_FAILED")
       => \A k \in 1..Len(starters) :
             starters[k].cond # "false"
             => \E i \in StarterCalls :
                   /\ phaseLog[i].idx = k
                   /\ phaseLog[i].member = 0
                   /\ phaseLog[i].call = "Start"


\* ---------------------------------------------------------------------------
\* The order of the phases of New, with factories, loaders and starters that
\* register further factories, loaders and starters.

MaxOrderItems == 1

ItemAdds == {"none", "factory", "loader", "starter"}

OrderFactoryItems ==
    [ reg : PhaseRegs, fails : BOOLEAN, adds : ItemAdds, late : {FALSE} ]

OrderLoaderItems == [ fails : BOOLEAN, adds : ItemAdds, late : {FALSE} ]

OrderStarterItems ==
    [ cond : {"none", "true", "false"}, reg : PhaseRegs, fails : BOOLEAN,
      members : {<< >>}, adds : ItemAdds, late : {FALSE} ]

OrderInit ==
    /\ BootInit({{}})
    /\ DefaultMetrics
    /\ factories \in SeqsUpTo(OrderFactoryItems, MaxOrderItems)
    /\ loaders \in SeqsUpTo(OrderLoaderItems, MaxOrderItems)
    /\ starters \in SeqsUpTo(OrderStarterItems, MaxOrderItems)
    /\ phaseIdx = 1
    /\ phaseLog = << >>

OrderNext ==
    \/ \E c \in {"a", "b"} : Register(c)
    \/ BlockReturn
    \/ FactoryStep
    \/ FactoriesDone
    \/ LoaderStep
    \/ LoadersDone
    \/ StarterStep
    \/ BeginDiscovery
    \/ \E c \in Names : DiscoverStep(c)
    \/ DiscoverDone
    \/ ValidateDependencies
    \/ InitTop
    \/ InitReal
    \/ InitDone
    \/ LifeNext

SpecOrder == OrderInit /\ [][OrderNext]_vars

\* The calls New made on the items of one list.
CallsOn(phase, k, call) ==
    { i \in 1..Len(phaseLog) :
        /\ phaseLog[i].phase = phase
        /\ phaseLog[i].idx = k
        /\ phaseLog[i].member = 0
        /\ phaseLog[i].call = call }

\* New is past its three loops and none of them returned an error.
LoopsPassed ==
    /\ pc \notin {"block", "factories", "loaders", "starters"}
    /\ err.at \notin {"factory", "loader", "starter"}

\* C27: the calls New made are in the order of the phases and, within a
\* list, in the order of registration; once the loops are passed every
\* factory has been created once, every loader loaded once and every starter
\* that was not skipped started once; no component met the tracking context
\* before that; and every registered component, whoever registered it, is
\* discovered once discovery is through and initialized once initialization
\* is.
C27_PhasesInOrder ==
    /\ \A i, j \in 1..Len(phaseLog) :
          i < j => \/ PhaseRank(phaseLog[i].phase) < PhaseRank(phaseLog[j].phase)
                   \/ /\ phaseLog[i].phase = phaseLog[j].phase
                      /\ phaseLog[i].idx <= phaseLog[j].idx
    /\ LoopsPassed
       => /\ \A k \in 1..Len(factories) :
                Cardinality(CallsOn("factory", k, "Create")) = 1
          /\ \A k \in 1..Len(loaders) :
                Cardinality(CallsOn("loader", k, "Load")) = 1
          /\ \A k \in 1..Len(starters) :
                Cardinality(CallsOn("starter", k, "Start")) =
                   IF starters[k].cond = "false" THEN 0 ELSE 1
    /\ (\E n \in Names : trackedInits[n] > 0) => LoopsPassed
    /\ (pc \in {"validate", "init", "start", "running"}) => discovered = registry
    /\ (pc \in {"start", "running"}) => registry \subseteq initialized


\* ---------------------------------------------------------------------------
\* The calls the container makes on one component.

\* C28: a component whose Start was invoked has had its real Init return, and
\* so has every dependency discovery found for it; a component whose Stop
\* was invoked has had its Start invoked, and that Start has returned or
\* panicked.
C28_InitStartStop ==
    \A c \in Names :
       /\ startCalls[c] > 0
          => /\ c \in lifecycle
             /\ realInits[c] > 0
             /\ c \in initialized
             /\ \A d \in dependencies[c] :
                   realInits[d] > 0 /\ d \in initialized
       /\ stopCalls[c] > 0
          => /\ startCalls[c] > 0
             /\ startState[c] \in {"returned", "panicked"}

C28_Witness ==
    \E c, d \in Names :
       /\ c # d
       /\ d \in dependencies[c]
       /\ stopCalls[c] > 0
       /\ startState[c] = "panicked"
       /\ startState[d] = "returned"
       /\ stopCalls[d] > 0


\* ---------------------------------------------------------------------------
\* Lookups of unregistered names during discovery.

\* The by-name lookups the tracking context answered for a name, other than
\* the requester's own, that the registry does not hold.
MissingByName ==
    { e \in lookupLog :
        /\ e.ctx = "tracking"
        /\ e.kind = "name"
        /\ e.arg # e.by
        /\ e.arg \notin registry }

\* C29: a by-name lookup of an unregistered name hands Init no component and
\* no error and the name is in the requester's discovered dependencies; and
\* an error DiscoverDependencies returned is a cycle among registered
\* components, never the missing name.
C29_MissingNotFatal ==
    /\ \A e \in MissingByName :
          /\ e.comp = NoMatch
          /\ e.code = "none"
          /\ e.arg \in dependencies[e.by]
    /\ err.at = "discover"
       => /\ err.code = "CIRCULAR_DEPENDENCY"
          /\ SeqToSet(err.path) \subseteq registry
    /\ (pc = "discover" /\ discovered # registry)
       => \E c \in Names : ENABLED DiscoverStep(c)

C29_Witness ==
    /\ MissingByName # {}
    /\ pc = "validate"
    /\ discovered = registry
    /\ err = NoError


\* ---------------------------------------------------------------------------
\* InitializeAll against any dependency graph over the registered components.

\* The container when New calls InitializeAll, had the resolver handed the
\* initializer any graph at all: discovery has visited every component and
\* validation has found every dependency registered.
AnyGraphInit ==
    /\ pc = "init"
    /\ registry = Names
    /\ prog = [ n \in Names |-> {} ]
    /\ lifecycle = {}
    /\ discovered = Names
    /\ dependencies \in [ Names -> SUBSET Names ]
    /\ trackedInits = [ n \in Names |-> 1 ]
    /\ realInits = Zero(Names)
    /\ selfLookups = {}
    /\ missingLookups = {}
    /\ err = NoError
    /\ initialized = {}
    /\ initOrder = << >>
    /\ stack = << >>
    /\ lmOrder = << >>
    /\ startIdx = 1
    /\ startState = [ n \in Names |-> "idle" ]
    /\ startCalls = Zero(Names)
    /\ errChan = << >>
    /\ errChanClosed = FALSE
    /\ startupErr = Zero(Names)
    /\ stopPc = "idle"
    /\ stopBatch = 0
    /\ stopIdx = 0
    /\ stopState = [ n \in Names |-> "idle" ]
    /\ stopCalls = Zero(Names)
    /\ stopLog = << >>
    /\ stopPanics = {}
    /\ shutdownCalls = 0
    /\ NoTasks(Names)
    /\ components = ComponentsOf(registry, Names)
    /\ NoRegistryCalls
    /\ NoVariables
    /\ NoPhaseItems
    /\ DefaultMetrics
    /\ metrics = [ n \in Names |->
                     [NoRecord EXCEPT !.exists = TRUE,
                        !.DependencyCount = Cardinality(dependencies[n])] ]
    /\ lookupLog = {}
    /\ callerHolds = NoHeld
    /\ delayCancelled = {}
    /\ app = NoApp

AnyGraphNext == InitTop \/ InitDescend \/ InitReal \/ InitDone

\* InitializeAll is sequential code: it takes its next step while it has one.
SpecAnyGraph ==
    AnyGraphInit /\ [][AnyGraphNext]_vars /\ WF_vars(AnyGraphNext)

\* The graph without the edges from a component to itself.
NoSelfEdges(D) == [ n \in DOMAIN D |-> D[n] \ {n} ]

CycleFailure ==
    /\ pc = "failed"
    /\ err.code = "CIRCULAR_DEPENDENCY"
    /\ err.at = "init"

\* The graph D has a cycle.
Cyclic(D) == CyclicNodes(D) # {}

\* What the claim says of the cycles of the graph D, as far as one state
\* shows it: the recursion is never deeper than the components are many, no
\* component on a cycle gets its real Init, InitializeAll does not return
\* nil, and the error it returns is CircularDependency.
CycleInv(D) ==
    /\ Len(stack) <= Cardinality(registry)
    /\ \A n \in CyclicNodes(D) : realInits[n] = 0
    /\ Cyclic(D) => pc # "start"
    /\ pc = "failed" => CycleFailure

\* The path of the error is the active path followed by a name on it.
CyclePathStep ==
    pc' = "failed"
    => \E d \in Visited(stack) : err'.path = Append(PathOf(stack), d)

\* C30 as claimed: for any graph with a cycle, one of a single component
\* that depends on itself included, InitializeAll ends, with CircularDependency
\* carrying the active path and the revisited name, and no component on the
\* cycle gets its real Init.
C30_AnyCycleFails ==
    /\ []CycleInv(dependencies)
    /\ [][CyclePathStep]_vars
    /\ (Cyclic(dependencies) ~> CycleFailure)

\* C30 amended: the same for the cycles of two or more components; an edge
\* from a component to itself is skipped.
C30_CycleOfTwoOrMoreFails ==
    /\ []CycleInv(NoSelfEdges(dependencies))
    /\ [][CyclePathStep]_vars
    /\ (Cyclic(NoSelfEdges(dependencies)) ~> CycleFailure)

C30_Witness ==
    /\ CycleFailure
    /\ Len(err.path) >= 3
    /\ initialized # {}
    /\ \E n \in Names : n \in dependencies[n]


\* ---------------------------------------------------------------------------
\* StartAll, with the scheduling Go guarantees.

NumStart == 4

\* New calls StartAll for an application of n initialized components that
\* look nothing up, any of them having Start/Stop.
StartInit ==
    \E n \in 0..NumStart :
       LET reg == { NamePool[i] : i \in 1..n } IN
       /\ pc = "start"
       /\ registry = reg
       /\ prog = [ c \in LifeNames |-> {} ]
       /\ lifecycle \in SUBSET reg
       /\ discovered = reg
       /\ dependencies = [ c \in LifeNames |-> {} ]
       /\ trackedInits = [ c \in LifeNames |-> IF c \in reg THEN 1 ELSE 0 ]
       /\ realInits = [ c \in LifeNames |-> IF c \in reg THEN 1 ELSE 0 ]
       /\ selfLookups = {}
       /\ missingLookups = {}
       /\ err = NoError
       /\ initialized = reg
       /\ initOrder = SubSeq(LifeOrder, 1, n)
       /\ stack = << >>
       /\ lmOrder = SubSeq(LifeOrder, 1, n)
       /\ startIdx = 1
       /\ startState = [ c \in LifeNames |-> "idle" ]
       /\ startCalls = Zero(LifeNames)
       /\ errChan = << >>
       /\ errChanClosed = FALSE
       /\ startupErr = Zero(LifeNames)
       /\ stopPc = "idle"
       /\ stopBatch = 0
       /\ stopIdx = 0
       /\ stopState = [ c \in LifeNames |-> "idle" ]
       /\ stopCalls = Zero(LifeNames)
       /\ stopLog = << >>
       /\ stopPanics = {}
       /\ shutdownCalls = 0
       /\ NoTasks(LifeNames)
       /\ components = ComponentsOf(registry, LifeNames)
       /\ NoRegistryCalls
       /\ NoVariables
       /\ NoPhaseItems
       /\ DefaultMetrics
       /\ metrics = MetricsAfter(LifeNames, reg, {})
       /\ lookupLog = {}
       /\ callerHolds = NoHeld
       /\ delayCancelled = {}
       /\ app = NoApp

StartNext ==
    \/ StartLaunch
    \/ \E c \in DOMAIN startState : StartReturn(c)
    \/ \E c \in DOMAIN startState : StartPanic(c)
    \/ StartClose
    \/ StartCollect
    \/ StartAllReturn

\* The goroutine running StartAll and the waiter goroutine keep being
\* scheduled, and every Start call that was made returns or panics.
StartFairness ==
    /\ WF_vars(StartLaunch)
    /\ WF_vars(StartClose)
    /\ WF_vars(StartCollect)
    /\ WF_vars(StartAllReturn)
    /\ \A c \in LifeNames : WF_vars(StartReturn(c) \/ StartPanic(c))

SpecStart == StartInit /\ [][StartNext]_vars /\ StartFairness

\* C31: a start goroutine whose Start is in progress can always report a
\* panic, errChan having room for it; and StartAll, once called, returns.
C31_StartAllReturns ==
    /\ [](\A c \in LifeNames :
             startState[c] = "running" => ENABLED StartPanic(c))
    /\ ((pc = "start") ~> (pc \in {"running", "cleanup"}))

C31_Witness ==
    /\ pc = "cleanup"
    /\ Len(lmOrder) = NumStart
    /\ \A c \in SeqToSet(lmOrder) : startState[c] = "panicked"


\* ---------------------------------------------------------------------------
\* The steps of one scheduler goroutine.

\* The Execute calls a scheduler goroutine makes before its ticker loop.
OnStartup(c) == IF c \in runOnStartup THEN 1 ELSE 0

\* C32: while the scheduler goroutine has not passed the initial delay it
\* has made one Execute if RunOnStartup is set and it is past that step, and
\* none otherwise; and a goroutine that was waiting the initial delay when
\* the context was cancelled makes no Execute after it.
C32_DelayThenPeriodic ==
    \A c \in DOMAIN schedPc :
       /\ schedPc[c] \in {"none", "launched"} => execCalls[c] = 0
       /\ schedPc[c] = "exec" => c \in runOnStartup
       /\ schedPc[c] \in {"exec", "delay"} => execCalls[c] = OnStartup(c)
       /\ c \in delayCancelled
          => /\ schedPc[c] # "tickExec"
             /\ execCalls[c] = OnStartup(c)


\* ---------------------------------------------------------------------------
\* Scheduler goroutines after cancellation, with the scheduling Go guarantees.

\* A further Execute from the ticker loop once MaxExecs calls were counted:
\* the count stays at MaxExecs, which then reads "MaxExecs or more".
TickAgain(c) ==
    /\ schedPc[c] = "wait"
    /\ c \in tickBuffered
    /\ execCalls[c] = MaxExecs
    /\ schedPc' = [schedPc EXCEPT ![c] = "tickExec"]
    /\ tickBuffered' = tickBuffered \ {c}
    /\ UNCHANGED << pc, bootVars, err, initVars, startVars, stopVars,
                    shutdownCalls, background, scheduled, runOnStartup,
                    hasDelay, ctxDone, runState, execCalls >>
    /\ UNCHANGED phaseVars
    /\ UNCHANGED << regVars, varVars >>
    /\ UNCHANGED components
    /\ UNCHANGED auxVars

SchedInit == TaskInit /\ background = {}

SchedNext ==
    \/ StartLaunch
    \/ \E c \in DOMAIN startState : StartReturn(c)
    \/ \E c \in DOMAIN startState : StartPanic(c)
    \/ StartClose
    \/ StartCollect
    \/ CancelCtx
    \/ \E c \in DOMAIN schedPc : SchedBegin(c)
    \/ \E c \in DOMAIN schedPc : ExecReturn(c)
    \/ \E c \in DOMAIN schedPc : DelayElapsed(c)
    \/ \E c \in DOMAIN schedPc : SchedCancelled(c)
    \/ \E c \in DOMAIN schedPc : TickerFires(c)
    \/ \E c \in DOMAIN schedPc : Tick(c)
    \/ \E c \in DOMAIN schedPc : TickAgain(c)

\* Every scheduler goroutine keeps being scheduled and every Execute returns;
\* the initial delay ends, by its timer or by cancellation; and a select that
\* finds ctx.Done() ready again and again takes it at some time, Go choosing
\* among the ready cases of a select uniformly at random.
SchedFairness ==
    \A c \in TaskNames :
       /\ WF_vars(SchedBegin(c))
       /\ WF_vars(ExecReturn(c))
       /\ WF_vars(DelayElapsed(c) \/ SchedCancelled(c))
       /\ SF_vars(SchedCancelled(c))

SpecSched == SchedInit /\ [][SchedNext]_vars /\ SchedFairness

\* C33: once the context is cancelled, every scheduler goroutine that was
\* launched exits.
C33_SchedulersExit ==
    \A c \in TaskNames :
       (ctxDone /\ schedPc[c] # "none") ~> (schedPc[c] = "exited")

C33_Witness ==
    \E c \in TaskNames :
       /\ ctxDone
       /\ schedPc[c] = "exited"
       /\ execCalls[c] = MaxExecs
       /\ c \notin delayCancelled


\* ---------------------------------------------------------------------------
\* The launch of the goroutines of Run and of the scheduler.

\* A task has a goroutine only if its component has the capability and its
\* Start has returned.
LaunchedAfterStart(state, capable) ==
    \A c \in DOMAIN state :
       state[c] # "none" => c \in capable /\ startState[c] = "returned"

\* A goroutine is launched by the step in which Start returns, for a task
\* that had none, and a task that has one never gets another.
LaunchedOnce(state) ==
    \A c \in DOMAIN state :
       /\ (state[c] # "launched" /\ state'[c] = "launched")
          => /\ state[c] = "none"
             /\ startState[c] = "running"
             /\ startState'[c] = "returned"
       /\ state[c] # "none" => state'[c] # "none"

\* C34: the goroutine of Run and the scheduler goroutine are each launched
\* at most once per component, by the return of its Start, and never for a
\* component whose Start panicked.
C34_LaunchAfterStart ==
    /\ [](/\ LaunchedAfterStart(runState, background)
          /\ LaunchedAfterStart(schedPc, scheduled))
    /\ [][LaunchedOnce(runState) /\ LaunchedOnce(schedPc)]_vars

C34_Witness ==
    \E c \in background, d \in scheduled :
       /\ startState[c] = "panicked"
       /\ runState[c] = "none"
       /\ startState[d] = "returned"
       /\ schedPc[d] = "exited"
       /\ StartAllReturned


\* ---------------------------------------------------------------------------
\* The batches of StopAll.

\* Shutdown of a running container of 0 to NumLife components.
SpecBatches == StopInit /\ [][StopNext]_vars

\* The positions of m.initOrder, counted from 0, that batch b visits.
BatchPositions(b) ==
    { i \in BatchEndIdx(b)..BatchStartIdx(b) : i >= 0 /\ i < Total }

\* C35: every position of the order is visited by exactly one batch, every
\* batch visits at least one and at most five positions, next to one another,
\* the batches following one another from the end of the order; a Stop in
\* progress belongs to the batch StopAll is at, so at most five are.
C35_BatchesPartition ==
    /\ \A i \in 0..(Total - 1) :
          Cardinality({ b \in 0..(Batches - 1) : i \in BatchPositions(b) }) = 1
    /\ \A b \in 0..(Batches - 1) :
          /\ BatchPositions(b) = BatchEndIdx(b)..BatchStartIdx(b)
          /\ Cardinality(BatchPositions(b)) \in 1..BatchSize
          /\ BatchStartIdx(b) = Total - 1 - (b * BatchSize)
          /\ b + 1 < Batches => BatchStartIdx(b + 1) = BatchEndIdx(b) - 1
    /\ Batches > 0 => BatchEndIdx(Batches - 1) = 0
    /\ Total = 0 => Batches = 0
    /\ \A c \in Running(stopState) :
          (Pos(lmOrder, c) - 1) \in BatchPositions(stopBatch)
    /\ Cardinality(Running(stopState)) <= BatchSize

C35_Witness ==
    /\ Total = 6
    /\ stopBatch = 0
    /\ Cardinality(Running(stopState)) = 5


\* ---------------------------------------------------------------------------
\* What the real Init of a component is handed.

\* C36 (as claimed): every component other than itself that a real Init is
\* handed by a lookup, by name or by type, has completed its own real Init
\* before.
C36_LookupsSeeInitialized ==
    [][\A e \in lookupLog' \ lookupLog :
          (e.ctx = "real" /\ e.comp \notin {NoMatch, e.by})
          => e.comp \in initialized]_vars


\* ---------------------------------------------------------------------------
\* Run against Stop.

\* C37 (as claimed): the goroutine of a background component does not call
\* Run once Stop has been invoked on that component.
C37_NoRunAfterStop ==
    [][\A c \in DOMAIN runState :
          (runState[c] = "launched" /\ runState'[c] = "running")
          => stopCalls[c] = 0]_vars


\* ---------------------------------------------------------------------------
\* Existence checks during discovery.

HasOps == { [kind |-> "has", arg |-> n] : n \in Names }

MaxHasChecks == 1

MaxHasLookups == 1

\* Init bodies that check components for existence and look them up by name.
HasPrograms ==
    { p \in SUBSET (NameOps \cup HasOps) :
        /\ Cardinality(HasOf(p)) <= MaxHasChecks
        /\ Cardinality(NamesOf(p)) <= MaxHasLookups }

HasInit == BootInit(HasPrograms) /\ NoPhaseItems /\ DefaultMetrics

SpecHas == HasInit /\ [][BootNext]_vars

\* C38: after the discovery of a component, a name it passed to HasComponent
\* is among its dependencies when the name is registered, its own name
\* included, and, unless it also looked the name up, is not when the name is
\* not registered; every check was answered and none with an error; an
\* error of discovery is a cycle of two or more components; and the
\* initializer never follows a self-edge nor fails with a cycle.
C38_HasRecordsRegistered ==
    /\ \A c \in discovered :
          \A n \in HasOf(prog[c]) :
             /\ n \in registry => n \in dependencies[c]
             /\ (n \notin registry /\ n \notin NamesOf(prog[c]))
                => n \notin dependencies[c]
             /\ [ctx |-> "tracking", by |-> c, kind |-> "has", arg |-> n,
                 comp |-> NoMatch,
                 code |-> IF n \in registry THEN "true" ELSE "false"]
                   \in lookupLog
    /\ err.at = "discover"
       => /\ err.code = "CIRCULAR_DEPENDENCY"
          /\ Len(err.path) >= 3
          /\ \A i \in 1..(Len(err.path) - 1) : err.path[i] # err.path[i + 1]
    /\ \A i \in 1..Len(stack) : stack[i].name \notin stack[i].todo
    /\ err.at = "init" => err.code # "CIRCULAR_DEPENDENCY"

C38_Witness ==
    /\ pc = "start"
    /\ \E c \in registry : c \in dependencies[c] /\ realInits[c] = 1
    /\ \E c \in registry : HasOf(prog[c]) \ registry # {}


\* ---------------------------------------------------------------------------
\* boot.Application: Run and Shutdown.

\* Most components of the application.
NumApp == 2

\* Most calls of Shutdown one goroutine makes.
MaxAppCalls == 2

\* boot.New has returned an Application for a started container.
AppInit == StopInit /\ Len(lmOrder) <= NumApp

\* `if a.shutdown != nil`: a caller enters Shutdown and reads the field, with
\* no lock held. The goroutine in Run gets here once, when <-a.ctx.Done()
\* has let it through.
AppShutdownEnter(t) ==
    /\ pc = "running"
    /\ app.at[t] = "idle"
    /\ app.calls[t] < (IF t = "run" THEN 1 ELSE MaxAppCalls)
    /\ t = "run" => ctxDone
    /\ app' = [app EXCEPT !.at[t] = IF app.shutdown THEN "call" ELSE "cancel",
                          !.calls[t] = @ + 1]
    /\ UNCHANGED << pc, bootVars, err, initVars, startVars, stopVars,
                    shutdownCalls >>
    /\ UNCHANGED taskVars
    /\ UNCHANGED phaseVars
    /\ UNCHANGED << regVars, varVars >>
    /\ UNCHANGED components
    /\ UNCHANGED << metricsEnabled, metrics, lookupLog, callerHolds,
                    delayCancelled >>

\* `a.shutdown()`: the caller that read a non-nil field calls the container's
\* shutdown function, which enters StopAll.
AppShutdownCall(t) ==
    /\ app.at[t] = "call"
    /\ stopPc = "idle"
    /\ shutdownCalls' = shutdownCalls + 1
    /\ BeginStopAll
    /\ app' = [app EXCEPT !.at[t] = "stopping"]
    /\ UNCHANGED << pc, bootVars, err, initVars, startVars >>
    /\ UNCHANGED taskVars
    /\ UNCHANGED phaseVars
    /\ UNCHANGED << regVars, varVars >>
    /\ UNCHANGED components
    /\ UNCHANGED << metricsEnabled, metrics, lookupLog, callerHolds,
                    delayCancelled >>

\* `a.shutdown = nil`, once the shutdown function has returned.
AppShutdownClear(t) ==
    /\ app.at[t] = "stopping"
    /\ stopPc = "idle"
    /\ app' = [app EXCEPT !.at[t] = "cancel", !.shutdown = FALSE]
    /\ UNCHANGED << pc, bootVars, err, initVars, startVars, stopVars,
                    shutdownCalls >>
    /\ UNCHANGED taskVars
    /\ UNCHANGED phaseVars
    /\ UNCHANGED << regVars, varVars >>
    /\ UNCHANGED components
    /\ UNCHANGED << metricsEnabled, metrics, lookupLog, callerHolds,
                    delayCancelled >>

\* `if a.cancel != nil { a.cancel(); a.cancel = nil }`, and Shutdown returns.
AppCancel(t) ==
    /\ app.at[t] = "cancel"
    /\ app' = [app EXCEPT !.at[t] = "idle", !.cancel = FALSE]
    /\ ctxDone' = (ctxDone \/ app.cancel)
    /\ delayCancelled' = IF app.cancel /\ ~ctxDone
                         THEN { c \in DOMAIN schedPc : schedPc[c] = "delay" }
                         ELSE delayCancelled
    /\ UNCHANGED << pc, bootVars, err, initVars, startVars, stopVars,
                    shutdownCalls, background, scheduled, runOnStartup,
                    tickBuffered, hasDelay, runState, schedPc, execCalls >>
    /\ UNCHANGED phaseVars
    /\ UNCHANGED << regVars, varVars >>
    /\ UNCHANGED components
    /\ UNCHANGED << metricsEnabled, metrics, lookupLog, callerHolds >>

\* The termination signal is CancelCtx: signal.NotifyContext cancels the
\* context boot.New handed to the container.
AppNext ==
    \/ CancelCtx
    \/ \E t \in AppCallers : AppShutdownEnter(t)
    \/ \E t \in AppCallers : AppShutdownCall(t)
    \/ \E t \in AppCallers : AppShutdownClear(t)
    \/ \E t \in AppCallers : AppCancel(t)
    \/ StopLaunch
    \/ \E c \in DOMAIN stopState : StopReturn(c)
    \/ \E c \in DOMAIN stopState : StopPanic(c)
    \/ StopBatchDone
    \/ StopAllReturn

SpecApp == AppInit /\ [][AppNext]_vars

\* C39: the container's shutdown function is invoked at most once and no
\* component's Stop more than once, whichever goroutines call Shutdown and
\* however often; and the context becomes cancelled only when the shutdown
\* function has been invoked and StopAll has returned.
C39_ShutdownOnceThenCancel ==
    /\ [](/\ shutdownCalls <= 1
          /\ \A c \in DOMAIN stopCalls : stopCalls[c] <= 1)
    /\ [][(~ctxDone /\ ctxDone') => (shutdownCalls >= 1 /\ stopPc = "idle")]_vars

=============================================================================
